---- MODULE Spec2Model ----
(***************************************************************************)
(* Model of the educational-resource backend: the volatile MemoryStore,    *)
(* the persistent (mongoose) collections it falls back from, the auth and  *)
(* resource/generation request handlers, and the AIService dispatcher.     *)
(*                                                                         *)
(* Conventions                                                             *)
(*   - a JS string is a sequence of one-character strings;                 *)
(*   - an optional JS value is <<>> (undefined) or <<v>>;                  *)
(*   - identifiers are pairs: <<"user", n>>, <<"resource", n>> (memory     *)
(*     counters), <<"oid", n>> (a mongoose ObjectId), <<"ts", t>> (a       *)
(*     Date.getTime() string).                                             *)
(***************************************************************************)
EXTENDS Integers, Sequences, FiniteSets, TLC

VARIABLES
    dbConnected,        \* mongoose.connection.readyState === 1
    now,                \* the clock read by new Date() / Date.now()
    users,              \* MemoryStore.users (a Map: insertion-ordered)
    userIdCounter,      \* MemoryStore.userIdCounter
    boot,               \* the await initializeDemoUsers is suspended at ("done" after it)
    mUsers,             \* the persistent users collection
    resources,          \* MemoryStore.resources
    resourceIdCounter,  \* MemoryStore.resourceIdCounter
    mResources,         \* the persistent resources collection
    generationResults,  \* MemoryStore.generationResults
    mGenerations,       \* the persistent generationresults collection
    oidCounter,         \* source of fresh ObjectIds
    providers,          \* AIService.providers: the registered adapter names
    reqs,               \* the handler activations in flight, one per slot
    probe,              \* arguments and results of the last direct call
    last                \* the handler activation that answered last, with its response

vars == <<dbConnected, now, users, userIdCounter, boot, mUsers, resources,
          resourceIdCounter, mResources, generationResults, mGenerations,
          oidCounter, providers, reqs, probe, last>>

accountVars == <<users, userIdCounter, boot, mUsers>>
resourceVars == <<resources, resourceIdCounter, mResources>>
generationVars == <<generationResults, mGenerations>>

-----------------------------------------------------------------------------
(* Bounds of the model *)

MaxClock == 1
MaxResources == 3
MaxSkip == 1
MaxLimit == 1
MaxSlots == 2
MaxRegistered == 2
MaxStored == 2
MaxViews == 2
MaxLikes == 3
MaxGenerations == 2

-----------------------------------------------------------------------------
(* Empty slots *)

\* a slot holding no activation, and the response before any was sent
Idle == [op |-> "idle", pc |-> "done", args |-> <<>>, loc |-> <<>>,
         res |-> [status |-> 0, message |-> "", data |-> <<>>]]

\* no direct call was made yet
NoProbe == [kind |-> "none"]

-----------------------------------------------------------------------------
(* JavaScript values *)

Undefined == <<>>
Some(v) == <<v>>
IsDefined(o) == o # <<>>
\* the number NaN, kept apart from every counter value (all are >= 0)
NaN == 0 - 1

\* v + 1 on an optional number: undefined + 1 and NaN + 1 are NaN
JSInc(o) == IF o = Undefined \/ o = Some(NaN) THEN Some(NaN) ELSE Some(o[1] + 1)

Alphabet == {"a", "b", "A", "?", "uFF1F"}
\* UTF-16 code unit of a character ("uFF1F" is the one character U+FF1F,
\* the fullwidth question mark)
CharCode(c) ==
    CASE c = "?" -> 63 [] c = "A" -> 65 [] c = "a" -> 97 [] c = "b" -> 98 [] c = "uFF1F" -> 65311
\* String.prototype.toLowerCase, per character
LowerChar(c) == IF c = "A" THEN "a" ELSE c
ToLowerCase(s) == [i \in 1..Len(s) |-> LowerChar(s[i])]

\* String.prototype.includes
Includes(s, t) ==
    \E i \in 0..(Len(s) - Len(t)) : \A j \in 1..Len(t) : s[i + j] = t[j]

\* s < t on strings: code-unit lexicographic order
RECURSIVE StrLess(_, _)
StrLess(s, t) ==
    IF t = <<>> THEN FALSE
    ELSE IF s = <<>> THEN TRUE
    ELSE IF CharCode(s[1]) < CharCode(t[1]) THEN TRUE
    ELSE IF CharCode(s[1]) > CharCode(t[1]) THEN FALSE
    ELSE StrLess(Tail(s), Tail(t))

\* The value a[sortKey] of a resource, tagged with its JS type
SortVal(r, sortKey) ==
    CASE sortKey = "createdAt" -> [t |-> "num", n |-> r.createdAt, s |-> <<>>]
      [] sortKey = "updatedAt" -> [t |-> "num", n |-> r.updatedAt, s |-> <<>>]
      [] sortKey = "title"     -> [t |-> "str", n |-> 0, s |-> r.title]
      [] sortKey = "views"     ->
            IF r.views = Undefined \/ r.views = Some(NaN)
            THEN [t |-> "nan", n |-> 0, s |-> <<>>]
            ELSE [t |-> "num", n |-> r.views[1], s |-> <<>>]

\* aVal < bVal as JS evaluates it (false whenever an operand is undefined/NaN)
JSLess(a, b) ==
    CASE a.t = "num" /\ b.t = "num" -> a.n < b.n
      [] a.t = "str" /\ b.t = "str" -> StrLess(a.s, b.s)
      [] OTHER -> FALSE
JSGreater(a, b) == JSLess(b, a)

-----------------------------------------------------------------------------
(* Array.prototype.sort as the runtime runs it on arrays shorter than 64:  *)
(* one natural run is found (a strictly "descending" one is reversed) and  *)
(* the rest is placed by binary insertion.                                 *)

\* the comparator passed to sort in findResources
SortCompare(a, b, sortKey, sortOrder) ==
    IF sortOrder = 1
    THEN (IF JSGreater(SortVal(a, sortKey), SortVal(b, sortKey)) THEN 1 ELSE 0 - 1)
    ELSE (IF JSLess(SortVal(a, sortKey), SortVal(b, sortKey)) THEN 1 ELSE 0 - 1)

Reverse(s) == [i \in 1..Len(s) |-> s[Len(s) + 1 - i]]

RECURSIVE RunExtend(_, _, _, _, _)
RunExtend(arr, idx, desc, sortKey, sortOrder) ==
    IF idx > Len(arr) THEN idx - 1
    ELSE LET order == SortCompare(arr[idx], arr[idx - 1], sortKey, sortOrder)
         IN IF (desc /\ order >= 0) \/ (~desc /\ order < 0)
            THEN idx - 1
            ELSE RunExtend(arr, idx + 1, desc, sortKey, sortOrder)

RunIsDescending(arr, sortKey, sortOrder) ==
    SortCompare(arr[2], arr[1], sortKey, sortOrder) < 0

CountRun(arr, sortKey, sortOrder) ==
    IF Len(arr) = 1 THEN 1
    ELSE RunExtend(arr, 3, RunIsDescending(arr, sortKey, sortOrder), sortKey, sortOrder)

MakeRun(arr, sortKey, sortOrder) ==
    LET n == CountRun(arr, sortKey, sortOrder)
    IN IF Len(arr) > 1 /\ RunIsDescending(arr, sortKey, sortOrder)
       THEN Reverse(SubSeq(arr, 1, n)) \o SubSeq(arr, n + 1, Len(arr))
       ELSE arr

RECURSIVE BinarySearch(_, _, _, _, _, _)
BinarySearch(arr, pivot, left, right, sortKey, sortOrder) ==
    IF left >= right THEN left
    ELSE LET mid == left + ((right - left) \div 2)
         IN IF SortCompare(pivot, arr[mid], sortKey, sortOrder) < 0
            THEN BinarySearch(arr, pivot, left, mid, sortKey, sortOrder)
            ELSE BinarySearch(arr, pivot, mid + 1, right, sortKey, sortOrder)

RECURSIVE BinaryInsertionSort(_, _, _, _)
BinaryInsertionSort(arr, start, sortKey, sortOrder) ==
    IF start > Len(arr) THEN arr
    ELSE LET pivot == arr[start]
             left == BinarySearch(arr, pivot, 1, start, sortKey, sortOrder)
             placed == SubSeq(arr, 1, left - 1) \o <<pivot>>
                       \o SubSeq(arr, left, start - 1)
                       \o SubSeq(arr, start + 1, Len(arr))
         IN BinaryInsertionSort(placed, start + 1, sortKey, sortOrder)

ArraySort(arr, sortKey, sortOrder) ==
    IF Len(arr) < 2 THEN arr
    ELSE BinaryInsertionSort(MakeRun(arr, sortKey, sortOrder),
                             CountRun(arr, sortKey, sortOrder) + 1,
                             sortKey, sortOrder)

-----------------------------------------------------------------------------
(* MemoryStore.findResources *)

\* query: [creator, category, contentType: string ("" = absent),
\*         isPublic: optional boolean, hasOr: BOOLEAN, or: sequence of
\*         conditions [creator: string, isPublic: optional boolean],
\*         search: JS string (<<>> = absent)]
NoQuery == [creator |-> "", category |-> "", contentType |-> "",
            isPublic |-> Undefined, hasOr |-> FALSE, or |-> <<>>,
            search |-> <<>>]

\* a condition that reads only the creator
OrConditionCreatorOnly(resource, condition) ==
    condition.creator # "" /\ resource.creator = condition.creator

\* one condition of query.$or against one resource
OrCondition(resource, condition) ==
    IF condition.creator # "" THEN resource.creator = condition.creator
    ELSE IF condition.isPublic # Undefined
         THEN resource.isPublic = condition.isPublic
         ELSE FALSE

OrFilter(resource, query) ==
    \E i \in 1..Len(query.or) : OrCondition(resource, query.or[i])

\* the $text.$search predicate; dereferencing an undefined description or
\* tags throws a TypeError (it is reached only when the earlier disjuncts
\* are false)
SearchThrows(r, searchTerm) ==
    /\ ~Includes(ToLowerCase(r.title), searchTerm)
    /\ \/ r.description = Undefined
       \/ /\ ~Includes(ToLowerCase(r.description[1]), searchTerm)
          /\ r.tags = Undefined

SearchMatches(r, searchTerm) ==
    \/ Includes(ToLowerCase(r.title), searchTerm)
    \/ /\ r.description # Undefined
       /\ \/ Includes(ToLowerCase(r.description[1]), searchTerm)
          \/ /\ r.tags # Undefined
             /\ \E i \in 1..Len(r.tags[1]) :
                    Includes(ToLowerCase(r.tags[1][i]), searchTerm)

\* the filters of findResources, up to and including $or
Filtered(store, query) ==
    LET byCreator(r) == query.creator = "" \/ r.creator = query.creator
        byCategory(r) == query.category = "" \/ r.category = query.category
        byType(r) == query.contentType = "" \/ r.contentType = query.contentType
        byPublic(r) == query.isPublic = Undefined \/ r.isPublic = query.isPublic
        byOr(r) == ~query.hasOr \/ OrFilter(r, query)
        keep(r) == byCreator(r) /\ byCategory(r) /\ byType(r) /\ byPublic(r) /\ byOr(r)
    IN SelectSeq(store, keep)

\* a slice that ends at limit instead of skip + limit
PaginateEndAtLimit(list, options) ==
    IF options.skip # 0 \/ options.limit # 0
    THEN LET skip == options.skip
             limit == IF options.limit # 0 THEN options.limit ELSE Len(list)
         IN SubSeq(list, skip + 1, IF limit > Len(list) THEN Len(list) ELSE limit)
    ELSE list

\* the pagination step of findResources
Paginate(list, options) ==
    IF options.skip # 0 \/ options.limit # 0
    THEN LET skip == options.skip
             limit == IF options.limit # 0 THEN options.limit ELSE Len(list)
         IN SubSeq(list, skip + 1, IF skip + limit > Len(list) THEN Len(list) ELSE skip + limit)
    ELSE list

\* options: [sortKey: string ("" = no sort), sortOrder: 1 or -1,
\*           skip, limit: Nat (0 = absent/falsy)]
\* result: [threw: BOOLEAN, list: the returned array]
findResources(store, query, options) ==
    LET filtered == Filtered(store, query)
        searchTerm == ToLowerCase(query.search)
        searching == query.search # <<>>
        threw == searching /\ \E i \in 1..Len(filtered) : SearchThrows(filtered[i], searchTerm)
        match(r) == SearchMatches(r, searchTerm)
        searched == IF searching THEN SelectSeq(filtered, match) ELSE filtered
        sorted == IF options.sortKey # ""
                  THEN ArraySort(searched, options.sortKey, options.sortOrder)
                  ELSE searched
    IN IF threw THEN [threw |-> TRUE, list |-> <<>>]
       ELSE [threw |-> FALSE, list |-> Paginate(sorted, options)]

-----------------------------------------------------------------------------
(* MemoryStore: resource methods *)

\* resourceData as the createResource handler builds it ({...req.body,
\* creator: userId}); bodyId is req.body._id, which the spread in
\* MemoryStore.createResource lets override the generated _id
ResourceData(title, description, tags, creator, isPublic, bodyId, valid) ==
    [title |-> title, description |-> description, tags |-> tags,
     category |-> "quiz", contentType |-> "text", creator |-> creator,
     isPublic |-> isPublic, bodyId |-> bodyId, valid |-> valid]

\* the record MemoryStore.createResource stores: generated _id, then the
\* cloned data spread over it, then the two timestamps; reads is a ghost
\* field, the number of 200 responses that returned it to a non-creator
NewMemoryResource(data, counter, clock) ==
    [_id |-> IF data.bodyId # Undefined THEN data.bodyId[1] ELSE <<"resource", counter>>,
     title |-> data.title, description |-> data.description, tags |-> data.tags,
     category |-> data.category, contentType |-> data.contentType,
     creator |-> data.creator, isPublic |-> data.isPublic,
     views |-> Undefined, likes |-> Undefined,
     createdAt |-> clock, updatedAt |-> clock, reads |-> 0]

\* findIndex(r => r._id === id): the first index, 0 when there is none
RECURSIVE FindIndexFrom(_, _, _)
FindIndexFrom(list, id, i) ==
    IF i > Len(list) THEN 0
    ELSE IF list[i]._id = id THEN i
    ELSE FindIndexFrom(list, id, i + 1)
FindIndex(list, id) == FindIndexFrom(list, id, 1)

\* MemoryStore.findResourceById: the stored object (by reference) or null;
\* the model returns its index, 0 for null
findResourceById(store, id) == FindIndex(store, id)

\* splice(index, 1)
Splice(list, index) == SubSeq(list, 1, index - 1) \o SubSeq(list, index + 1, Len(list))

\* MemoryStore.deleteResource
deleteResource(store, id) ==
    LET index == FindIndex(store, id)
    IN IF index = 0 THEN [ok |-> FALSE, store |-> store]
       ELSE [ok |-> TRUE, store |-> Splice(store, index)]

\* a count taken from the first page of one record
countResourcesOfPage(store, query) == Len(findResources(store, query, [sortKey |-> "", sortOrder |-> 1, skip |-> 0, limit |-> 1]).list)

\* MemoryStore.cleanupCorruptedResources: drops every resource whose title
\* includes '?' and holds no character of [a-zA-Z0-9\s]
cleanupCorruptedResources(store) ==
    LET hasCorruptedTitle(resource) ==
            /\ Includes(resource.title, <<"?">>)
            /\ ~\E i \in 1..Len(resource.title) : CharCode(resource.title[i]) \in (48..57) \cup (65..90) \cup (97..122) \cup {9, 10, 13, 32}
        keep(resource) == ~hasCorruptedTitle(resource)
    IN SelectSeq(store, keep)

\* MemoryStore.countResources
countResources(store, query) == Len(findResources(store, query, [sortKey |-> "", sortOrder |-> 1, skip |-> 0, limit |-> 0]).list)

-----------------------------------------------------------------------------
(* AIService: the adapter registry and the dispatcher *)

\* the constructor: an adapter per configured API key, and always mock
RegistryWithoutMock(env) ==
    (IF env.openaiKey THEN {"openai"} ELSE {}) \cup
    (IF env.claudeKey THEN {"claude"} ELSE {})

Registry(env) ==
    (IF env.openaiKey THEN {"openai"} ELSE {}) \cup
    (IF env.claudeKey THEN {"claude"} ELSE {}) \cup
    {"mock"}

Environments == [openaiKey : BOOLEAN, claudeKey : BOOLEAN]

\* adapters that define generateImage
HasGenerateImage(name) == name \in {"openai", "mock"}

\* the adapter name generateContent ends up with ("" = unspecified provider)
SelectProvider(registry, request) ==
    LET providerName == IF request.provider # "" THEN request.provider ELSE "openai"
    IN IF providerName \notin registry THEN "mock" ELSE providerName

\* what the selected adapter returns (adapterOk) or throws; the mock adapter
\* performs no external call and cannot fail
AdapterCall(name, method, request, adapterOk) ==
    IF name = "mock"
    THEN [threw |-> FALSE, error |-> "", adapter |-> name, method |-> method,
          provider |-> "mock",
          model |-> IF method = "generateImage" THEN "mock-image-model" ELSE "mock-model",
          isMock |-> TRUE]
    ELSE IF adapterOk
    THEN [threw |-> FALSE, error |-> "", adapter |-> name, method |-> method,
          provider |-> name,
          model |-> IF request.model # "" THEN request.model
                    ELSE IF name = "claude" THEN "claude-3-sonnet-20240229"
                    ELSE IF method = "generateImage" THEN "dall-e-3"
                    ELSE "gpt-3.5-turbo",
          isMock |-> FALSE]
    ELSE [threw |-> TRUE, error |-> "generation failed", adapter |-> name,
          method |-> method, provider |-> "", model |-> "", isMock |-> FALSE]

\* whether the external call behind the named adapter fails
AdapterFails(name, adapterOk) == name # "mock" /\ ~adapterOk

\* a dispatcher that answers a failed adapter call with the mock adapter
generateContentWithFallback(registry, request, adapterOk) ==
    LET providerName == SelectProvider(registry, request)
        method == IF request.type = "image" /\ HasGenerateImage(providerName)
                  THEN "generateImage" ELSE "generateText"
        first == AdapterCall(providerName, method, request, adapterOk)
    IN IF first.threw THEN AdapterCall("mock", method, request, adapterOk) ELSE first

\* AIService.generateContent
generateContent(registry, request, adapterOk) ==
    LET providerName == SelectProvider(registry, request)
    IN IF providerName \notin registry
       THEN [threw |-> TRUE, error |-> "unsupported provider", adapter |-> "",
             method |-> "", provider |-> "", model |-> "", isMock |-> FALSE]
       ELSE IF request.type = "image" /\ HasGenerateImage(providerName)
            THEN AdapterCall(providerName, "generateImage", request, adapterOk)
            ELSE AdapterCall(providerName, "generateText", request, adapterOk)

\* AIService.isProviderAvailable
isProviderAvailable(registry, provider) == provider \in registry

ProviderNames == {"", "openai", "claude", "mock", "baidu", "nonexistent"}
GenerationTypes == {"text", "image", "audio", "video"}
GenerationRequests == [type : GenerationTypes, provider : ProviderNames, model : {"", "m1"}]

-----------------------------------------------------------------------------
(* Direct calls on the MemoryStore singleton (specification SpecPages) *)

StoreCreators == {"u1", "u2"}

\* the resourceData values the direct calls draw from
StoreInputs ==
    { ResourceData(<<"a">>, Undefined, Undefined, "u1", Undefined, Undefined, TRUE),
      ResourceData(<<"A", "b">>, Some(<<"b">>), Some(<< <<"a">> >>), "u2", Some(TRUE), Undefined, TRUE) }

VisibilityQuery(userId) ==
    [NoQuery EXCEPT !.hasOr = TRUE,
                    !.or = << [creator |-> userId, isPublic |-> Undefined],
                              [creator |-> "", isPublic |-> Some(TRUE)] >>]

ProbeQueries ==
    { NoQuery, VisibilityQuery("u2"), [NoQuery EXCEPT !.search = <<"A">>] }

ProbeSorts ==
    { [sortKey |-> "createdAt", sortOrder |-> 0 - 1],
      [sortKey |-> "title", sortOrder |-> 1] }

Options(sort, skip, limit) ==
    [sortKey |-> sort.sortKey, sortOrder |-> sort.sortOrder, skip |-> skip, limit |-> limit]

\* new Date(): the clock may have advanced since it was last read
Tick ==
    /\ now < MaxClock
    /\ now' = now + 1
    /\ UNCHANGED <<dbConnected, accountVars, resourceVars, generationVars,
                   oidCounter, providers, reqs, probe, last>>

\* memoryStore.createResource(resourceData)
StoreCreateResource ==
    /\ resourceIdCounter <= MaxResources
    /\ \E data \in StoreInputs :
          resources' = Append(resources, NewMemoryResource(data, resourceIdCounter, now))
    /\ resourceIdCounter' = resourceIdCounter + 1
    /\ probe' = NoProbe
    /\ UNCHANGED <<dbConnected, now, users, userIdCounter, boot, mUsers, mResources,
                   generationResults, mGenerations, oidCounter, providers, reqs, last>>

\* memoryStore.deleteResource(id)
StoreDeleteResource ==
    /\ \E n \in 1..MaxResources :
          LET result == deleteResource(resources, <<"resource", n>>)
          IN /\ result.ok
             /\ resources' = result.store
    /\ probe' = NoProbe
    /\ UNCHANGED <<dbConnected, now, users, userIdCounter, boot, mUsers, resourceIdCounter,
                   mResources, generationResults, mGenerations, oidCounter, providers, reqs, last>>

\* three findResources calls on the unchanged collection: skip=k,limit=n;
\* skip=k+n,limit=n; skip=k,limit=2n
StoreFindPages ==
    /\ \E query \in ProbeQueries, sort \in ProbeSorts, k \in 0..MaxSkip, n \in 1..MaxLimit :
          probe' = [kind |-> "pages", query |-> query, sort |-> sort, k |-> k, n |-> n,
                    first |-> findResources(resources, query, Options(sort, k, n)),
                    second |-> findResources(resources, query, Options(sort, k + n, n)),
                    both |-> findResources(resources, query, Options(sort, k, 2 * n))]
    /\ UNCHANGED <<dbConnected, now, users, userIdCounter, boot, mUsers, resources,
                   resourceIdCounter, mResources, generationResults, mGenerations,
                   oidCounter, providers, reqs, last>>

InitStore ==
    /\ dbConnected = FALSE
    /\ now = 0
    /\ users = <<>>
    /\ boot = "done"
    /\ userIdCounter = 1
    /\ mUsers = <<>>
    /\ resources = <<>>
    /\ resourceIdCounter = 1
    /\ mResources = <<>>
    /\ generationResults = <<>>
    /\ mGenerations = <<>>
    /\ oidCounter = 1
    /\ providers = {"mock"}
    /\ reqs = <<>>
    /\ probe = NoProbe
    /\ last = Idle

NextPages ==
    \/ Tick
    \/ StoreCreateResource
    \/ StoreDeleteResource
    \/ StoreFindPages

SpecPages == InitStore /\ [][NextPages]_vars

\* C6: for a fixed query and sort option on an unchanged collection, the
\* pages skip=k,limit=n and skip=k+n,limit=n are disjoint and their
\* concatenation is the page skip=k,limit=2n
C6_PaginationConcat ==
    probe.kind = "pages" =>
        /\ probe.first.threw = probe.both.threw
        /\ probe.second.threw = probe.both.threw
        /\ probe.first.list \o probe.second.list = probe.both.list
        /\ \A i \in 1..Len(probe.first.list), j \in 1..Len(probe.second.list) :
              probe.first.list[i] # probe.second.list[j]

\* both pages are non-empty, the second starts past a non-zero skip and the
\* collection was sorted
C6_Witness ==
    /\ probe.kind = "pages"
    /\ probe.sort.sortKey # ""
    /\ probe.k > 0
    /\ Len(probe.first.list) = probe.n
    /\ Len(probe.second.list) > 0
    /\ Len(resources) > probe.k + probe.n

-----------------------------------------------------------------------------
(* Direct calls on the AIService singleton (specification SpecDispatch) *)

InitDispatch ==
    /\ dbConnected = FALSE
    /\ now = 0
    /\ users = <<>>
    /\ boot = "done"
    /\ userIdCounter = 1
    /\ mUsers = <<>>
    /\ resources = <<>>
    /\ resourceIdCounter = 1
    /\ mResources = <<>>
    /\ generationResults = <<>>
    /\ mGenerations = <<>>
    /\ oidCounter = 1
    /\ \E env \in Environments : providers = Registry(env)
    /\ reqs = <<>>
    /\ probe = NoProbe
    /\ last = Idle

\* aiService.generateContent(request), run to its result or its throw
DispatchGenerate ==
    /\ \E request \in GenerationRequests, adapterOk \in BOOLEAN :
          probe' = [kind |-> "generate", request |-> request,
                    outcome |-> generateContent(providers, request, adapterOk)]
    /\ UNCHANGED <<dbConnected, now, users, userIdCounter, boot, mUsers, resources,
                   resourceIdCounter, mResources, generationResults, mGenerations,
                   oidCounter, providers, reqs, last>>

NextDispatch == DispatchGenerate

SpecDispatch == InitDispatch /\ [][NextDispatch]_vars

\* the name the request asks for, with the fixed default for none
RequestedName(request) == IF request.provider = "" THEN "openai" ELSE request.provider

\* C10: adapter selection is total: the adapter used is registered, it is the
\* named (or default 'openai') one when that is registered and mock
\* otherwise, a mock result carries provider 'mock' and isMock, and the
\* 'unsupported provider' error is never raised
C10_SelectionTotal ==
    probe.kind = "generate" =>
        /\ probe.outcome.error # "unsupported provider"
        /\ probe.outcome.adapter \in providers
        /\ probe.outcome.adapter =
              (IF RequestedName(probe.request) \in providers
               THEN RequestedName(probe.request) ELSE "mock")
        /\ (probe.outcome.adapter = "mock" =>
              /\ ~probe.outcome.threw
              /\ probe.outcome.provider = "mock"
              /\ probe.outcome.isMock)

\* a request naming the unregistered provider 'nonexistent' was served by mock
C10_Witness ==
    /\ probe.kind = "generate"
    /\ probe.request.provider = "nonexistent"
    /\ ~probe.outcome.threw
    /\ probe.outcome.provider = "mock"
    /\ probe.outcome.isMock

-----------------------------------------------------------------------------
(* Accounts: MemoryStore user methods and the users collection *)

MsgExists == "username or email already exists"
MsgRegistered == "registered"
MsgRegisterFailed == "register failed, retry later"

\* bcrypt.hash: a salted digest that bcrypt.compare matches to its plaintext
BcryptHash(password) == <<"bcrypt", password>>

BcryptCompare(password, digest) == digest = <<"bcrypt", password>>

\* jwt.sign({userId}, secret): the verified payload is the user id
generateToken(userId) == <<"jwt", userId>>

\* the scan of createUser (and the $or query of register): some account has
\* this email or this username
ExistingUser(accounts, email, username) ==
    \E i \in 1..Len(accounts) :
        accounts[i].email = email \/ accounts[i].username = username

\* users.set(id, record): replaces the entry of the id, or adds one at the
\* end when the map holds none
SetUser(accounts, record) ==
    LET index == FindIndex(accounts, record._id)
    IN IF index = 0 THEN Append(accounts, record)
       ELSE [accounts EXCEPT ![index] = record]

\* the record createUser stores
NewMemoryUser(userData, counter, clock) ==
    [_id |-> <<"user", counter>>, username |-> userData.username,
     email |-> userData.email, password |-> BcryptHash(userData.password),
     role |-> userData.role,
     profile |-> [displayName |-> userData.username, bio |-> <<>>],
     createdAt |-> clock, updatedAt |-> clock, lastLoginAt |-> Undefined]

\* String.prototype.length of the usernames this model uses
StrLen(str) ==
    CASE str \in {"t3"} -> 2
      [] str \in {"t01", "t02", "m01"} -> 3
      [] str \in {"teacher", "student"} -> 7

\* why save() of a new user document rejects ("" when it resolves): the
\* schema wants a username of 3 to 30 characters, then the insert needs the
\* connection, and the unique indexes a free username and email
UserSaveRejection(userData, connected, collection) ==
    IF StrLen(userData.username) < 3 \/ StrLen(userData.username) > 30 THEN "validation"
    ELSE IF ~connected THEN "connectivity"
    ELSE IF ExistingUser(collection, userData.email, userData.username)
    THEN "duplicate key"
    ELSE ""

\* the document register saves (the pre-save hook hashes the password)
NewMongoUser(userData, oid, clock) ==
    [_id |-> <<"oid", oid>>, username |-> userData.username,
     email |-> userData.email, password |-> BcryptHash(userData.password),
     role |-> userData.role,
     profile |-> [displayName |-> userData.username, bio |-> <<>>],
     createdAt |-> clock, updatedAt |-> clock, lastLoginAt |-> Undefined]

\* the userData of the two createUser calls of initializeDemoUsers
DemoUserData ==
    [teacher |-> [username |-> "teacher", email |-> "teacher@example.com",
                  password |-> "Teacher123", role |-> "teacher"],
     student |-> [username |-> "student", email |-> "student@example.com",
                  password |-> "Student123", role |-> "student"]]

\* the accounts the store holds once initializeDemoUsers has run, undisturbed,
\* in a process loaded at clock 0
DemoUsers ==
    << NewMemoryUser(DemoUserData.teacher, 1, 0),
       NewMemoryUser(DemoUserData.student, 2, 0) >>

\* a selector that repeats the answer of its previous call
CachedSelector ==
    IF probe.kind = "selector" /\ probe.answer # "none"
    THEN probe.answer = "volatile" ELSE ~dbConnected

\* shouldUseMemoryStore(): the live readyState, read at every call
shouldUseMemoryStore == ~dbConnected

-----------------------------------------------------------------------------
(* Handler activations *)

Slots == 1..MaxSlots

\* the slot of the requests a specification serves one after the other
OneAtATime == {1}

\* an arriving request takes the first free slot
SlotFree(s) == reqs[s].op = "idle" /\ \A t \in Slots : t < s => reqs[t].op # "idle"

\* res.status(...).json(...): the activation ends with this response
Respond(r, status, message, data) ==
    [r EXCEPT !.pc = "done",
              !.res = [status |-> status, message |-> message, data |-> data]]

\* the activation in slot s ends as r
Finish(s, r) ==
    /\ reqs' = [reqs EXCEPT ![s] = Idle]
    /\ last' = r

\* the activation in slot s suspends at its next await as r
Suspend(s, r) ==
    /\ reqs' = [reqs EXCEPT ![s] = r]
    /\ UNCHANGED last

InFlight(op, backend) ==
    Cardinality({s \in Slots : reqs[s].op = op /\ reqs[s].loc.backend = backend})

\* the connection drops, or the driver reconnects
Disconnect ==
    /\ dbConnected
    /\ dbConnected' = FALSE
    /\ UNCHANGED <<now, accountVars, resourceVars, generationVars, oidCounter,
                   providers, reqs, probe, last>>

Reconnect ==
    /\ ~dbConnected
    /\ dbConnected' = TRUE
    /\ UNCHANGED <<now, accountVars, resourceVars, generationVars, oidCounter,
                   providers, reqs, probe, last>>

-----------------------------------------------------------------------------
(* authController.register *)

RegisterBody(username, email) ==
    [username |-> username, email |-> email, password |-> "Aa123456", role |-> "student"]

\* the second body shares its email with the first, the third its username
RegisterBodies ==
    { RegisterBody("t01", "t01@x.com"), RegisterBody("t02", "t01@x.com"),
      RegisterBody("t01", "t02@x.com") }

\* a username shorter than the user schema allows, with the email of a demo
\* account of the volatile backend
ShortBodies == { RegisterBody("t3", "teacher@example.com") }

\* some stored account carries this username or this email
AccountHolds(accounts, body) ==
    \E a \in {accounts[i] : i \in 1..Len(accounts)} :
        a.username = body.username \/ a.email = body.email

\* ghost fields of a register activation: dupAtStart (the routed backend held
\* an account with this username or email when the request arrived), wrote
\* (the activation stored an account), connErr (a persistent call of the
\* activation failed because the connection was down); stamp is the clock
\* mongoose read for the timestamps when the write was called
RegisterLoc(backend, dup) ==
    [backend |-> backend, dupAtStart |-> dup, wrote |-> FALSE, connErr |-> FALSE,
     stamp |-> 0]

\* the request arrives: the selector is read and, in memory mode, createUser
\* runs its scan and suspends at the password hash
RegisterStart(s, bodies) ==
    /\ SlotFree(s)
    /\ \E body \in bodies :
          IF shouldUseMemoryStore
          THEN LET dup == ExistingUser(users, body.email, body.username)
                   r == [op |-> "register", pc |-> "hash", args |-> body,
                         loc |-> RegisterLoc("memory", AccountHolds(users, body)),
                         res |-> Idle.res]
               IN IF dup
                  THEN Finish(s, Respond(r, 400, MsgExists, <<>>))
                  ELSE /\ Len(users) + InFlight("register", "memory")
                            < Len(DemoUsers) + MaxRegistered
                       /\ Suspend(s, r)
          ELSE /\ Len(mUsers) + InFlight("register", "mongo") < MaxRegistered
               /\ Suspend(s, [op |-> "register", pc |-> "findOne", args |-> body,
                              loc |-> RegisterLoc("mongo", AccountHolds(mUsers, body)),
                              res |-> Idle.res])
    /\ UNCHANGED <<dbConnected, now, accountVars, resourceVars, generationVars,
                   oidCounter, providers, probe>>

\* bcrypt.hash resolves: createUser stores the account with users.set, which
\* replaces an entry the map holds under the new id; register answers 201
RegisterHashed(s) ==
    /\ reqs[s].op = "register" /\ reqs[s].pc = "hash"
    /\ LET user == NewMemoryUser(reqs[s].args, userIdCounter, now)
       IN /\ users' = SetUser(users, user)
          /\ userIdCounter' = userIdCounter + 1
          /\ Finish(s, Respond([reqs[s] EXCEPT !.loc.wrote = TRUE], 201, MsgRegistered,
                               [id |-> user._id, token |-> generateToken(user._id)]))
    /\ UNCHANGED <<dbConnected, now, boot, mUsers, resourceVars, generationVars,
                   oidCounter, providers, probe>>

\* UserModel.findOne({$or: [{email}, {username}]}) resolves or rejects
RegisterFindOne(s) ==
    /\ reqs[s].op = "register" /\ reqs[s].pc = "findOne"
    /\ IF ~dbConnected
       THEN Finish(s, Respond([reqs[s] EXCEPT !.loc.connErr = TRUE], 500, MsgRegisterFailed, <<>>))
       ELSE IF ExistingUser(mUsers, reqs[s].args.email, reqs[s].args.username)
       THEN Finish(s, Respond(reqs[s], 400, MsgExists, <<>>))
       ELSE Suspend(s, [reqs[s] EXCEPT !.pc = "save", !.loc.stamp = now])
    /\ UNCHANGED <<dbConnected, now, accountVars, resourceVars, generationVars,
                   oidCounter, providers, probe>>

\* user.save() resolves, or rejects (the schema refuses the document, the
\* connection is down, or the unique indexes on username and email refuse
\* the insert); createdAt and updatedAt are the clock of the call of save(),
\* not of its completion
RegisterSave(s) ==
    /\ reqs[s].op = "register" /\ reqs[s].pc = "save"
    /\ IF UserSaveRejection(reqs[s].args, dbConnected, mUsers) # ""
       THEN /\ Finish(s, Respond([reqs[s] EXCEPT !.loc.connErr =
                      (UserSaveRejection(reqs[s].args, dbConnected, mUsers) = "connectivity")],
                    500, MsgRegisterFailed, <<>>))
            /\ UNCHANGED <<mUsers, oidCounter>>
       ELSE LET user == NewMongoUser(reqs[s].args, oidCounter, reqs[s].loc.stamp)
            IN /\ mUsers' = Append(mUsers, user)
               /\ oidCounter' = oidCounter + 1
               /\ Finish(s, Respond([reqs[s] EXCEPT !.loc.wrote = TRUE], 201, MsgRegistered,
                                    [id |-> user._id, token |-> generateToken(user._id)]))
    /\ UNCHANGED <<dbConnected, now, users, userIdCounter, boot, resourceVars,
                   generationVars, providers, probe>>

InitRegister ==
    /\ dbConnected \in BOOLEAN
    /\ now = 0
    /\ users = DemoUsers
    /\ boot = "done"
    /\ userIdCounter = Len(DemoUsers) + 1
    /\ mUsers = <<>>
    /\ resources = <<>>
    /\ resourceIdCounter = 1
    /\ mResources = <<>>
    /\ generationResults = <<>>
    /\ mGenerations = <<>>
    /\ oidCounter = 1
    /\ providers = {"mock"}
    /\ reqs = [s \in Slots |-> Idle]
    /\ probe = NoProbe
    /\ last = Idle

NextRegister ==
    \/ Disconnect
    \/ Reconnect
    \/ \E s \in Slots : RegisterStart(s, RegisterBodies)
    \/ \E s \in OneAtATime : RegisterStart(s, ShortBodies)
    \/ \E s \in Slots : RegisterHashed(s)
    \/ \E s \in Slots : RegisterFindOne(s)
    \/ \E s \in Slots : RegisterSave(s)

SpecRegister == InitRegister /\ [][NextRegister]_vars

\* C1: the volatile account map never holds two accounts with the same
\* username or the same email, whatever the interleaving of createUser calls
C1_VolatileAccountsUnique ==
    \A i, j \in 1..Len(users) :
        i # j => /\ users[i].username # users[j].username
                 /\ users[i].email # users[j].email

\* C2: a register request that arrives when the backend it is routed to
\* already holds an account with its username or its email ends with 400
\* and the 'already exists' message, no token, and stores nothing
C2_DuplicateRegisterRejected ==
    (/\ last.op = "register"
     /\ last.loc.dupAtStart)
    => /\ last.res.status = 400
       /\ last.res.message = MsgExists
       /\ last.res.data = <<>>
       /\ ~last.loc.wrote

\* such a request never gets a token and never stores an account, and it is
\* answered 400 'already exists' unless findOne of the persistent backend
\* was cut off by a connection loss
C2_DuplicateNeverStored ==
    (/\ last.op = "register"
     /\ last.loc.dupAtStart)
    => /\ last.res.data = <<>>
       /\ ~last.loc.wrote
       /\ \/ /\ last.res.status = 400
             /\ last.res.message = MsgExists
          \/ /\ last.loc.connErr
             /\ last.loc.backend = "mongo"
             /\ last.res.status = 500

\* a register that reused the email, with another username, of an account an
\* earlier register created was rejected
C2_Witness ==
    /\ last.op = "register"
    /\ last.loc.dupAtStart
    /\ last.res.status = 400
    /\ \E i \in 1..Len(users) :
          /\ users[i]._id = <<"user", 3>>
          /\ users[i].email = last.args.email
          /\ users[i].username # last.args.username

-----------------------------------------------------------------------------
(* The persistent resources collection, as the handlers use it *)

\* an identifier mongoose can cast to an ObjectId; the identifiers the
\* volatile store generates ('resource_3', a 13-digit clock reading) cannot
Castable(id) == id[1] = "oid"

AccountIds == {"u1", "u2", "u3"}

\* the document new ResourceModel(resourceData).save() inserts: schema
\* defaults fill isPublic, views, likes and tags, timestamps are stamped,
\* version is __v. Ghost fields: reads (200 responses that returned it to a
\* non-creator), toggles (200 like responses per account), raced (a like
\* was saved over a read that was stale by then)
NewMongoResource(data, oid, clock) ==
    [_id |-> IF data.bodyId # Undefined THEN data.bodyId[1] ELSE <<"oid", oid>>,
     title |-> data.title, description |-> data.description,
     tags |-> IF data.tags = Undefined THEN Some(<<>>) ELSE data.tags,
     category |-> data.category, contentType |-> data.contentType,
     creator |-> data.creator,
     isPublic |-> IF data.isPublic = Undefined THEN Some(FALSE) ELSE data.isPublic,
     views |-> Some(0), likes |-> Some(<<>>),
     createdAt |-> clock, updatedAt |-> clock, version |-> 0,
     reads |-> 0, toggles |-> [u \in AccountIds |-> 0], raced |-> FALSE]

\* why save() of a new resource document rejects ("" when it resolves):
\* schema validation runs first, then the insert needs the connection and
\* a free _id
SaveRejection(data, connected, collection) ==
    IF ~data.valid THEN "validation"
    ELSE IF ~connected THEN "connectivity"
    ELSE IF data.bodyId # Undefined /\ FindIndex(collection, data.bodyId[1]) # 0
    THEN "duplicate key"
    ELSE ""

\* why a query by _id rejects ("" when it resolves): the cast of the id
\* happens before anything is sent
QueryRejection(id, connected) ==
    IF ~Castable(id) THEN "cast"
    ELSE IF ~connected THEN "connectivity"
    ELSE ""

\* ResourceModel.find(query): the documents matching some $or condition by
\* field equality (the handlers of this model pass no category, contentType
\* or search)
MongoFind(collection, query) ==
    LET matches(doc, condition) ==
            /\ condition.creator # "" => doc.creator = condition.creator
            /\ condition.isPublic # Undefined => doc.isPublic = condition.isPublic
        keep(doc) == ~query.hasOr \/ \E i \in 1..Len(query.or) : matches(doc, query.or[i])
    IN SelectSeq(collection, keep)

\* .sort(sort): ordered by the key, equal keys in collection order
RECURSIVE MongoSortFrom(_, _, _, _)
MongoSortFrom(sorted, rest, sortKey, sortOrder) ==
    IF rest = <<>> THEN sorted
    ELSE LET x == rest[1]
             before(y) == IF sortOrder = 1
                          THEN ~JSLess(SortVal(x, sortKey), SortVal(y, sortKey))
                          ELSE ~JSGreater(SortVal(x, sortKey), SortVal(y, sortKey))
             n == Cardinality({i \in 1..Len(sorted) : before(sorted[i])})
         IN MongoSortFrom(SubSeq(sorted, 1, n) \o <<x>> \o SubSeq(sorted, n + 1, Len(sorted)),
                          Tail(rest), sortKey, sortOrder)
MongoSort(list, sortKey, sortOrder) == MongoSortFrom(<<>>, list, sortKey, sortOrder)

\* .skip(skip).limit(limit)
MongoPage(list, skip, limit) ==
    SubSeq(list, skip + 1, IF skip + limit > Len(list) THEN Len(list) ELSE skip + limit)

\* the _id values of a list of records
Ids(list) == {list[i]._id : i \in 1..Len(list)}

-----------------------------------------------------------------------------
(* resourceController.createResource and getResources *)

\* the authenticated accounts authMiddleware attaches as req.user
Principal(id, role) == [id |-> id, role |-> role]
Teacher1 == Principal("u1", "teacher")
Student2 == Principal("u2", "student")
Admin3 == Principal("u3", "admin")

\* request bodies of createResource: the fields this model follows
ResourceBody(isPublic, bodyId, valid) ==
    [isPublic |-> isPublic, bodyId |-> bodyId, valid |-> valid]

\* {...req.body, creator: userId}
MakeResourceData(body, userId) ==
    ResourceData(<<"a">>, IF body.valid THEN Some(<<"b">>) ELSE Undefined, Undefined,
                 userId, body.isPublic, body.bodyId, body.valid)

\* the locals of an activation this model follows: whether the volatile
\* store was consulted, after which rejection and whether the backend was
\* reachable when the persistent call was made (a ghost), whether a persistent
\* lookup resolved to null, whether a volatile lookup returned nothing,
\* whether the caller created the record the request names (a ghost),
\* whether a persistent call followed a volatile lookup, hasLiked, the
\* document the handler loaded, the result an awaited service call gave,
\* how the external call of the selected adapter ended (a ghost), the
\* clock read when the pending write was called (new Date() in the handler,
\* or the timestamps hook of mongoose, which runs before anything is sent),
\* for the two reads a list handler passes to Promise.all, whether each
\* has been answered and with what, and whether the handler changed the
\* document it is saving
HandlerLoc ==
    [memoryUsed |-> FALSE, cause |-> "", reachable |-> FALSE, persistentNull |-> FALSE,
     volatileNull |-> FALSE, ownsTarget |-> FALSE, persistentAfterVolatile |-> FALSE, hasLiked |-> FALSE, doc |-> <<>>,
     result |-> <<>>, outcome |-> "", stamp |-> 0,
     findDone |-> FALSE, countDone |-> FALSE, page |-> <<>>, total |-> 0,
     modified |-> FALSE]

MsgCreated == "resource created"
MsgListFailed == "listing resources failed"

\* the number of resources stored so far or being stored
ResourceLoad ==
    (resourceIdCounter - 1) + (oidCounter - 1)
    + Cardinality({s \in Slots : reqs[s].op = "createResource"})

\* POST /resources arrives: the handler builds resourceData and awaits save()
CreateResourceStart(s, principals, bodies) ==
    /\ SlotFree(s)
    /\ ResourceLoad < MaxStored
    /\ \E user \in principals, body \in bodies :
          Suspend(s, [op |-> "createResource", pc |-> "save",
                      args |-> [user |-> user, body |-> body],
                      loc |-> [HandlerLoc EXCEPT !.stamp = now],
                      res |-> Idle.res])
    /\ UNCHANGED <<dbConnected, now, accountVars, resourceVars, generationVars,
                   oidCounter, providers, probe>>

\* save() resolves (201 with the document, stamped when save() was called),
\* or rejects and the catch stores the resource in the volatile store
\* instead (201 with that record)
CreateResourceSave(s) ==
    /\ reqs[s].op = "createResource" /\ reqs[s].pc = "save"
    /\ LET data == MakeResourceData(reqs[s].args.body, reqs[s].args.user.id)
           rejection == SaveRejection(data, dbConnected, mResources)
           r == reqs[s]
       IN IF rejection = ""
          THEN LET doc == NewMongoResource(data, oidCounter, r.loc.stamp)
               IN /\ mResources' = Append(mResources, doc)
                  /\ oidCounter' = oidCounter + 1
                  /\ Finish(s, Respond(r, 201, MsgCreated, [resource |-> doc]))
                  /\ UNCHANGED <<resources, resourceIdCounter>>
          ELSE LET resource == NewMemoryResource(data, resourceIdCounter, now)
               IN /\ resources' = Append(resources, resource)
                  /\ resourceIdCounter' = resourceIdCounter + 1
                  /\ Finish(s, Respond([r EXCEPT !.loc.memoryUsed = TRUE,
                                                 !.loc.cause = rejection,
                                                 !.loc.reachable = dbConnected],
                                       201, MsgCreated, [resource |-> resource]))
                  /\ UNCHANGED <<mResources, oidCounter>>
    /\ UNCHANGED <<dbConnected, now, accountVars, generationVars, providers, probe>>

\* the query getResources builds: non-admins see their own and public ones
ListQuery(user) ==
    IF user.role # "admin" THEN VisibilityQuery(user.id) ELSE NoQuery

\* Math.ceil(total / limit) for limit >= 1
CeilDiv(total, limit) == (total + limit - 1) \div limit

\* data of a list response: the page and the pagination object
ListData(field, page, current, pageSize, total) ==
    [resources |-> IF field = "resources" THEN page ELSE <<>>,
     results |-> IF field = "results" THEN page ELSE <<>>,
     current |-> current, pageSize |-> pageSize, total |-> total,
     totalPages |-> CeilDiv(total, pageSize)]

\* the sortBy and sortOrder getResources uses when the query string names none
DefaultSort == [sortBy |-> "createdAt", sortOrder |-> "desc"]

\* GET /resources arrives: the handler builds query, skip and sort and awaits
\* the find and the count
GetResourcesStart(s, principals, pages, limits, sorts) ==
    /\ SlotFree(s)
    /\ \E user \in principals, page \in pages, limit \in limits, a \in sorts :
          Suspend(s, [op |-> "getResources", pc |-> "find",
                      args |-> [user |-> user, page |-> page, limit |-> limit,
                                sortBy |-> a.sortBy, sortOrder |-> a.sortOrder],
                      loc |-> HandlerLoc,
                      res |-> Idle.res])
    /\ UNCHANGED <<dbConnected, now, accountVars, resourceVars, generationVars,
                   oidCounter, providers, probe>>

\* the catch of getResources: the listing and the count of the volatile store
ListFromMemory(s) ==
    LET a == reqs[s].args
        query == ListQuery(a.user)
        result == findResources(resources, query,
                     [sortKey |-> a.sortBy,
                      sortOrder |-> IF a.sortOrder = "desc" THEN 0 - 1 ELSE 1,
                      skip |-> (a.page - 1) * a.limit, limit |-> a.limit])
        m == [reqs[s] EXCEPT !.loc.memoryUsed = TRUE, !.loc.cause = "connectivity",
                             !.loc.reachable = dbConnected,
                             !.loc.page = IF result.threw THEN <<>> ELSE result.list,
                             !.loc.total = countResources(resources, query)]
    IN IF result.threw
       THEN Finish(s, Respond(m, 500, MsgListFailed, <<>>))
       ELSE Finish(s, Respond(m, 200, "",
               ListData("resources", m.loc.page, a.page, a.limit, m.loc.total)))

\* Promise.all resolves once both reads are answered; res.json follows
ListSettle(s, r, field) ==
    IF r.loc.findDone /\ r.loc.countDone
    THEN Finish(s, Respond(r, 200, "",
            ListData(field, r.loc.page, r.args.page, r.args.limit, r.loc.total)))
    ELSE Suspend(s, r)

\* find(query).sort(sort).skip(skip).limit(limit) is answered, or rejects and
\* the catch asks the volatile store
GetResourcesFind(s) ==
    /\ reqs[s].op = "getResources" /\ reqs[s].pc = "find"
    /\ ~reqs[s].loc.findDone
    /\ LET a == reqs[s].args
           sortOrder == IF a.sortOrder = "desc" THEN 0 - 1 ELSE 1
           found == MongoFind(mResources, ListQuery(a.user))
       IN IF dbConnected
          THEN ListSettle(s, [reqs[s] EXCEPT
                    !.loc.findDone = TRUE,
                    !.loc.page = MongoPage(MongoSort(found, a.sortBy, sortOrder),
                                           (a.page - 1) * a.limit, a.limit)],
                  "resources")
          ELSE ListFromMemory(s)
    /\ UNCHANGED <<dbConnected, now, accountVars, resourceVars, generationVars,
                   oidCounter, providers, probe>>

\* countDocuments(query) is answered, or rejects and the catch asks the
\* volatile store
GetResourcesCount(s) ==
    /\ reqs[s].op = "getResources" /\ reqs[s].pc = "find"
    /\ ~reqs[s].loc.countDone
    /\ IF dbConnected
       THEN ListSettle(s, [reqs[s] EXCEPT
                 !.loc.countDone = TRUE,
                 !.loc.total = Len(MongoFind(mResources, ListQuery(reqs[s].args.user)))],
               "resources")
       ELSE ListFromMemory(s)
    /\ UNCHANGED <<dbConnected, now, accountVars, resourceVars, generationVars,
                   oidCounter, providers, probe>>

-----------------------------------------------------------------------------
(* resourceController: the handlers that address one resource by id *)

MsgNotFound == "resource not found"
MsgForbidden == "forbidden"
MsgFailed == "operation failed"

\* an ObjectId string and a plain string that no backend generates (their
\* counters start at 1); a client can still have a resource stored under
\* the first by sending it as _id in the body of createResource
ClientOid == <<"oid", 0>>
AbsentIds == { ClientOid, <<"resource", 0>> }

\* the id parameters requests carry
IdChoices == Ids(resources) \cup Ids(mResources) \cup AbsentIds

\* a lookup that also asks the volatile store when the persistent one
\* resolves to null
LookupResourceOrVolatile(id, connected, collection, store) ==
    LET rejection == QueryRejection(id, connected)
    IN IF rejection = "" /\ FindIndex(collection, id) # 0
       THEN [backend |-> "persistent", index |-> FindIndex(collection, id), cause |-> ""]
       ELSE [backend |-> "volatile", index |-> findResourceById(store, id),
             cause |-> rejection]

\* try { resource = await ResourceModel.findById(id) }
\* catch { resource = memoryStore.findResourceById(id) }
\* index 0 stands for null
LookupResource(id, connected, collection, store) ==
    LET rejection == QueryRejection(id, connected)
    IN IF rejection = ""
       THEN [backend |-> "persistent", index |-> FindIndex(collection, id), cause |-> ""]
       ELSE [backend |-> "volatile", index |-> findResourceById(store, id),
             cause |-> rejection]

\* the activation's locals after the lookup
AfterLookup(r, found, id) ==
    [r EXCEPT !.loc.memoryUsed = (found.backend = "volatile"),
              !.loc.cause = found.cause,
              !.loc.reachable = dbConnected,
              !.loc.persistentNull = /\ QueryRejection(id, dbConnected) = ""
                                     /\ FindIndex(mResources, id) = 0,
              !.loc.volatileNull = /\ QueryRejection(id, dbConnected) # ""
                                   /\ FindIndex(resources, id) = 0]

\* a backend holds a resource under this id that this account created
OwnsResource(id, userId) ==
    \/ \E i \in 1..Len(resources) : resources[i]._id = id /\ resources[i].creator = userId
    \/ \E i \in 1..Len(mResources) : mResources[i]._id = id /\ mResources[i].creator = userId

\* in-flight activations of op on the resource id
Pending(op, id) ==
    Cardinality({s \in Slots : reqs[s].op = op /\ reqs[s].args.id = id})

\* the views, and the like saves, the documents of the collection have
\* received so far
RECURSIVE TotalViews(_)
TotalViews(collection) ==
    IF collection = <<>> THEN 0
    ELSE Head(collection).views[1] + TotalViews(Tail(collection))
RECURSIVE TotalVersions(_)
TotalVersions(collection) ==
    IF collection = <<>> THEN 0
    ELSE Head(collection).version + TotalVersions(Tail(collection))

\* in-flight activations of op
Active(op) == Cardinality({s \in Slots : reqs[s].op = op})

\* a request with an id parameter arrives and awaits findById
ByIdStart(s, op, principals, ids) ==
    /\ SlotFree(s)
    /\ op = "getResourceById" => TotalViews(mResources) + Active(op) < MaxViews
    /\ op = "likeResource" => TotalVersions(mResources) + Active(op) < MaxLikes
    /\ \E user \in principals, id \in ids :
          Suspend(s, [op |-> op, pc |-> "findById",
                      args |-> [user |-> user, id |-> id],
                      loc |-> [HandlerLoc EXCEPT !.ownsTarget = OwnsResource(id, user.id)],
                      res |-> Idle.res])
    /\ UNCHANGED <<dbConnected, now, accountVars, resourceVars, generationVars,
                   oidCounter, providers, probe>>

GetResourceByIdStart(s, principals, ids) == ByIdStart(s, "getResourceById", principals, ids)

\* the lookup settles; 404, 403, 200 for the creator; for anyone else
\* views += 1 and save(): awaited on a document, a TypeError on a volatile
\* record (it has no save), whose views the += has already overwritten
GetResourceByIdFind(s) ==
    /\ reqs[s].op = "getResourceById" /\ reqs[s].pc = "findById"
    /\ LET a == reqs[s].args
           found == LookupResource(a.id, dbConnected, mResources, resources)
           r == AfterLookup(reqs[s], found, a.id)
       IN IF found.index = 0
          THEN /\ Finish(s, Respond(r, 404, MsgNotFound, <<>>))
               /\ UNCHANGED resourceVars
          ELSE LET resource == IF found.backend = "persistent"
                               THEN mResources[found.index]
                               ELSE resources[found.index]
                   isOwner == resource.creator = a.user.id
                   isPublic == resource.isPublic = Some(TRUE)
               IN IF ~isOwner /\ ~isPublic /\ a.user.role # "admin"
                  THEN /\ Finish(s, Respond(r, 403, MsgForbidden, <<>>))
                       /\ UNCHANGED resourceVars
                  ELSE IF isOwner
                  THEN /\ Finish(s, Respond(r, 200, "", [resource |-> resource]))
                       /\ UNCHANGED resourceVars
                  ELSE IF found.backend = "volatile"
                  THEN /\ resources' = [resources EXCEPT ![found.index].views = JSInc(@)]
                       /\ Finish(s, Respond(r, 500, MsgFailed, <<>>))
                       /\ UNCHANGED <<resourceIdCounter, mResources>>
                  ELSE /\ Suspend(s, [r EXCEPT !.pc = "save",
                                               !.loc.doc = [resource EXCEPT !.views = JSInc(@),
                                                                            !.updatedAt = now]])
                       /\ UNCHANGED resourceVars
    /\ UNCHANGED <<dbConnected, now, accountVars, generationVars, oidCounter,
                   providers, probe>>

\* save() of the loaded document: $set of the views it computed and of the
\* updatedAt the timestamps hook stamped when save() was called
GetResourceByIdSave(s) ==
    /\ reqs[s].op = "getResourceById" /\ reqs[s].pc = "save"
    /\ LET doc == reqs[s].loc.doc
           i == FindIndex(mResources, doc._id)
           r == [reqs[s] EXCEPT !.loc.persistentAfterVolatile = reqs[s].loc.memoryUsed]
       IN IF ~dbConnected \/ i = 0
          THEN /\ Finish(s, Respond(r, 500, MsgFailed, <<>>))
               /\ UNCHANGED mResources
          ELSE /\ mResources' = [mResources EXCEPT ![i].views = doc.views,
                                                   ![i].updatedAt = doc.updatedAt,
                                                   ![i].reads = @ + 1]
               /\ Finish(s, Respond(r, 200, "", [resource |-> doc]))
    /\ UNCHANGED <<dbConnected, now, accountVars, resources, resourceIdCounter,
                   generationVars, oidCounter, providers, probe>>

DeleteResourceStart(s, principals, ids) == ByIdStart(s, "deleteResource", principals, ids)

\* the lookup settles (isMongoDb = it resolved); 404, 403; then the volatile
\* record is spliced out, or findByIdAndDelete is awaited
DeleteResourceFind(s) ==
    /\ reqs[s].op = "deleteResource" /\ reqs[s].pc = "findById"
    /\ LET a == reqs[s].args
           found == LookupResource(a.id, dbConnected, mResources, resources)
           isMongoDb == found.backend = "persistent"
           r == AfterLookup(reqs[s], found, a.id)
       IN IF found.index = 0
          THEN /\ Finish(s, Respond(r, 404, MsgNotFound, <<>>))
               /\ UNCHANGED resourceVars
          ELSE LET resource == IF isMongoDb THEN mResources[found.index]
                               ELSE resources[found.index]
                   isOwner == resource.creator = a.user.id
               IN IF ~isOwner /\ a.user.role # "admin"
                  THEN /\ Finish(s, Respond(r, 403, MsgForbidden, <<>>))
                       /\ UNCHANGED resourceVars
                  ELSE IF isMongoDb
                  THEN /\ Suspend(s, [r EXCEPT !.pc = "delete"])
                       /\ UNCHANGED resourceVars
                  ELSE LET deleted == deleteResource(resources, a.id)
                       IN /\ resources' = deleted.store
                          /\ UNCHANGED <<resourceIdCounter, mResources>>
                          /\ IF deleted.ok
                             THEN Finish(s, Respond(r, 200, "resource deleted", <<>>))
                             ELSE Finish(s, Respond(r, 404, MsgNotFound, <<>>))
    /\ UNCHANGED <<dbConnected, now, accountVars, generationVars, oidCounter,
                   providers, probe>>

\* findByIdAndDelete settles
DeleteResourceDelete(s) ==
    /\ reqs[s].op = "deleteResource" /\ reqs[s].pc = "delete"
    /\ LET r == [reqs[s] EXCEPT !.loc.persistentAfterVolatile = reqs[s].loc.memoryUsed]
           i == FindIndex(mResources, reqs[s].args.id)
       IN IF ~dbConnected
          THEN /\ Finish(s, Respond(r, 500, MsgFailed, <<>>))
               /\ UNCHANGED mResources
          ELSE /\ mResources' = IF i = 0 THEN mResources ELSE Splice(mResources, i)
               /\ Finish(s, Respond(r, 200, "resource deleted", <<>>))
    /\ UNCHANGED <<dbConnected, now, accountVars, resources, resourceIdCounter,
                   generationVars, oidCounter, providers, probe>>

\* the outcome of the bare `await ResourceModel.findById(id)` of
\* updateResource, likeResource and publishResource: a rejection reaches
\* the handler's catch (500)
FindByIdOrFail(id) ==
    IF QueryRejection(id, dbConnected) # "" THEN [failed |-> TRUE, index |-> 0]
    ELSE [failed |-> FALSE, index |-> FindIndex(mResources, id)]

\* request bodies of updateResource: the fields this model follows
UpdateBody(title, isPublic, creator) ==
    [title |-> title, isPublic |-> isPublic, creator |-> creator]

\* findByIdAndUpdate(id, {...req.body, updatedAt: new Date()})
ApplyUpdate(doc, body, clock) ==
    [doc EXCEPT !.title = IF body.title = Undefined THEN @ ELSE body.title[1],
                !.isPublic = IF body.isPublic = Undefined THEN @ ELSE body.isPublic,
                !.creator = IF body.creator = Undefined THEN @ ELSE body.creator[1],
                !.updatedAt = clock]

\* PUT /resources/:id arrives and awaits findById
UpdateResourceStart(s, principals, ids, bodies) ==
    /\ SlotFree(s)
    /\ \E user \in principals, id \in ids, body \in bodies :
          Suspend(s, [op |-> "updateResource", pc |-> "findById",
                      args |-> [user |-> user, id |-> id, body |-> body],
                      loc |-> [HandlerLoc EXCEPT !.ownsTarget = OwnsResource(id, user.id)],
                      res |-> Idle.res])
    /\ UNCHANGED <<dbConnected, now, accountVars, resourceVars, generationVars,
                   oidCounter, providers, probe>>

\* findById settles: 500, 404, 403, or findByIdAndUpdate is called with
\* updatedAt: new Date() and awaited
UpdateResourceFind(s) ==
    /\ reqs[s].op = "updateResource" /\ reqs[s].pc = "findById"
    /\ LET a == reqs[s].args
           found == FindByIdOrFail(a.id)
       IN IF found.failed
          THEN Finish(s, Respond(reqs[s], 500, MsgFailed, <<>>))
          ELSE IF found.index = 0
          THEN Finish(s, Respond(reqs[s], 404, MsgNotFound, <<>>))
          ELSE IF mResources[found.index].creator # a.user.id /\ a.user.role # "admin"
          THEN Finish(s, Respond(reqs[s], 403, MsgForbidden, <<>>))
          ELSE Suspend(s, [reqs[s] EXCEPT !.pc = "update", !.loc.stamp = now])
    /\ UNCHANGED <<dbConnected, now, accountVars, resourceVars, generationVars,
                   oidCounter, providers, probe>>

\* findByIdAndUpdate settles: 500, or 200 with the updated document (null
\* when it has been deleted meanwhile)
UpdateResourceUpdate(s) ==
    /\ reqs[s].op = "updateResource" /\ reqs[s].pc = "update"
    /\ LET a == reqs[s].args
           i == FindIndex(mResources, a.id)
       IN IF ~dbConnected
          THEN /\ Finish(s, Respond(reqs[s], 500, MsgFailed, <<>>))
               /\ UNCHANGED mResources
          ELSE IF i = 0
          THEN /\ Finish(s, Respond(reqs[s], 200, "resource updated", [resource |-> <<>>]))
               /\ UNCHANGED mResources
          ELSE LET updated == ApplyUpdate(mResources[i], a.body, reqs[s].loc.stamp)
               IN /\ mResources' = [mResources EXCEPT ![i] = updated]
                  /\ Finish(s, Respond(reqs[s], 200, "resource updated",
                                       [resource |-> updated]))
    /\ UNCHANGED <<dbConnected, now, accountVars, resources, resourceIdCounter,
                   generationVars, oidCounter, providers, probe>>

\* Array.prototype.filter(like => like !== userId)
Without(likes, userId) ==
    LET other(like) == like # userId
    IN SelectSeq(likes, other)

\* a handler that pushes whether or not the account has liked
AlwaysPush(likes, userId) == Append(likes, userId)

\* hasLiked ? likes.filter(like => like !== userId) : likes.push(userId)
ToggleLikes(likes, userId) ==
    IF \E i \in 1..Len(likes) : likes[i] = userId
    THEN Without(likes, userId)
    ELSE Append(likes, userId)

LikeResourceStart(s, principals, ids) == ByIdStart(s, "likeResource", principals, ids)

\* findById settles: 500, 404, or the likes are toggled on the loaded
\* document and save() is awaited
LikeResourceFind(s) ==
    /\ reqs[s].op = "likeResource" /\ reqs[s].pc = "findById"
    /\ LET a == reqs[s].args
           found == FindByIdOrFail(a.id)
       IN IF found.failed
          THEN Finish(s, Respond(reqs[s], 500, MsgFailed, <<>>))
          ELSE IF found.index = 0
          THEN Finish(s, Respond(reqs[s], 404, MsgNotFound, <<>>))
          ELSE LET resource == mResources[found.index]
                   likes == resource.likes[1]
                   hasLiked == \E i \in 1..Len(likes) : likes[i] = a.user.id
               IN Suspend(s, [reqs[s] EXCEPT
                                !.pc = "save",
                                !.loc.doc = [resource EXCEPT
                                                !.likes = Some(ToggleLikes(likes, a.user.id)),
                                                !.updatedAt = now],
                                !.loc.hasLiked = hasLiked])
    /\ UNCHANGED <<dbConnected, now, accountVars, resourceVars, generationVars,
                   oidCounter, providers, probe>>

\* save() of the loaded document: a push goes out as $push, a replaced
\* array as $set guarded by the version read; both increment the version
\* and carry the updatedAt stamped when save() was called
LikeResourceSave(s) ==
    /\ reqs[s].op = "likeResource" /\ reqs[s].pc = "save"
    /\ LET a == reqs[s].args
           doc == reqs[s].loc.doc
           hasLiked == reqs[s].loc.hasLiked
           i == FindIndex(mResources, doc._id)
           stale == mResources[i].version # doc.version
       IN IF ~dbConnected \/ i = 0 \/ (hasLiked /\ stale)
          THEN /\ Finish(s, Respond(reqs[s], 500, MsgFailed, <<>>))
               /\ UNCHANGED mResources
          ELSE LET stored == [mResources[i] EXCEPT
                                !.likes = IF hasLiked THEN doc.likes
                                          ELSE Some(Append(@[1], a.user.id)),
                                !.version = @ + 1,
                                !.updatedAt = doc.updatedAt,
                                !.toggles[a.user.id] = @ + 1,
                                !.raced = @ \/ stale]
               IN /\ mResources' = [mResources EXCEPT ![i] = stored]
                  /\ Finish(s, Respond([reqs[s] EXCEPT !.loc.doc = stored], 200,
                                       IF hasLiked THEN "unliked" ELSE "liked",
                                       [liked |-> ~hasLiked,
                                        likesCount |-> Len(doc.likes[1])]))
    /\ UNCHANGED <<dbConnected, now, accountVars, resources, resourceIdCounter,
                   generationVars, oidCounter, providers, probe>>

PublishResourceStart(s, principals, ids) == ByIdStart(s, "publishResource", principals, ids)

\* findById settles: 500, 404, 403 for anyone but the creator, or isPublic
\* is set on the loaded document and save() is awaited; the timestamps hook
\* stamps updatedAt when save() is called, if the assignment changed the
\* document
PublishResourceFind(s) ==
    /\ reqs[s].op = "publishResource" /\ reqs[s].pc = "findById"
    /\ LET a == reqs[s].args
           found == FindByIdOrFail(a.id)
       IN IF found.failed
          THEN Finish(s, Respond(reqs[s], 500, MsgFailed, <<>>))
          ELSE IF found.index = 0
          THEN Finish(s, Respond(reqs[s], 404, MsgNotFound, <<>>))
          ELSE IF mResources[found.index].creator # a.user.id
          THEN Finish(s, Respond(reqs[s], 403, MsgForbidden, <<>>))
          ELSE LET modified == mResources[found.index].isPublic # Some(TRUE)
               IN Suspend(s, [reqs[s] EXCEPT
                                !.pc = "save",
                                !.loc.modified = modified,
                                !.loc.doc = [mResources[found.index] EXCEPT
                                                !.isPublic = Some(TRUE),
                                                !.updatedAt = IF modified THEN now ELSE @]])
    /\ UNCHANGED <<dbConnected, now, accountVars, resourceVars, generationVars,
                   oidCounter, providers, probe>>

\* save() of the loaded document settles: $set of the paths that changed
PublishResourceSave(s) ==
    /\ reqs[s].op = "publishResource" /\ reqs[s].pc = "save"
    /\ LET doc == reqs[s].loc.doc
           i == FindIndex(mResources, doc._id)
       IN IF ~dbConnected \/ i = 0
          THEN /\ Finish(s, Respond(reqs[s], 500, MsgFailed, <<>>))
               /\ UNCHANGED mResources
          ELSE /\ mResources' = IF reqs[s].loc.modified
                                 THEN [mResources EXCEPT ![i].isPublic = Some(TRUE),
                                                         ![i].updatedAt = doc.updatedAt]
                                 ELSE mResources
               /\ Finish(s, Respond(reqs[s], 200, "resource published",
                                    [resource |-> doc]))
    /\ UNCHANGED <<dbConnected, now, accountVars, resources, resourceIdCounter,
                   generationVars, oidCounter, providers, probe>>

-----------------------------------------------------------------------------
(* aiController: generateContent, getGenerationById, deleteGenerationResult *)

\* the providers the route validator of POST /ai/generate admits
RouteProviders == {"openai", "claude", "baidu", "mock"}

\* the record generateContent builds from the adapter's result: _id is the
\* clock reading as a string, metadata is the adapter's (finishReason,
\* responseTime), which carries no model
NewGenerationRecord(userId, request, clock) ==
    [_id |-> <<"ts", clock>>, userId |-> userId, contentType |-> request.type,
     status |-> "completed", metadataModel |-> Undefined, createdAt |-> clock]

\* why save() of a new generation document rejects ("" when it resolves):
\* _id must cast to an ObjectId and metadata.model is required
GenerationSaveRejection(record, connected) ==
    IF ~Castable(record._id) \/ record.metadataModel = Undefined THEN "validation"
    ELSE IF ~connected THEN "connectivity"
    ELSE ""

\* find(r => r._id === id && r.userId === userId): the first index, 0 when
\* there is none
RECURSIVE FindOwnedFrom(_, _, _, _)
FindOwnedFrom(list, id, userId, i) ==
    IF i > Len(list) THEN 0
    ELSE IF list[i]._id = id /\ list[i].userId = userId THEN i
    ELSE FindOwnedFrom(list, id, userId, i + 1)
FindOwned(list, id, userId) == FindOwnedFrom(list, id, userId, 1)

\* the number of generation records stored or being produced
GenerationLoad ==
    Len(generationResults) + Len(mGenerations)
    + Cardinality({s \in Slots : reqs[s].op = "generateContent"})

\* POST /ai/generate arrives: 400 for a provider that is not registered,
\* otherwise aiService.generateContent is awaited
GenerateContentStart(s, principals, requests) ==
    /\ SlotFree(s)
    /\ GenerationLoad < MaxGenerations
    /\ \E user \in principals, request \in requests :
          /\ request.provider \in RouteProviders
          /\ LET r == [op |-> "generateContent", pc |-> "generate",
                       args |-> [user |-> user, request |-> request],
                       loc |-> HandlerLoc, res |-> Idle.res]
             IN IF ~isProviderAvailable(providers, request.provider)
                THEN Finish(s, Respond(r, 400, "provider unavailable", <<>>))
                ELSE Suspend(s, r)
    /\ UNCHANGED <<dbConnected, now, accountVars, resourceVars, generationVars,
                   oidCounter, providers, probe>>

\* the adapter settles: 500 with its error, or the record is built and
\* save() is awaited
GenerateContentCall(s) ==
    /\ reqs[s].op = "generateContent" /\ reqs[s].pc = "generate"
    /\ \E adapterOk \in BOOLEAN :
          LET a == reqs[s].args
              result == generateContent(providers, a.request, adapterOk)
              outcome == IF AdapterFails(SelectProvider(providers, a.request), adapterOk)
                         THEN "failed" ELSE "ok"
          IN IF result.threw
             THEN Finish(s, Respond([reqs[s] EXCEPT !.loc.cause = "adapter",
                                                    !.loc.outcome = outcome],
                                    500, result.error, <<>>))
             ELSE Suspend(s, [reqs[s] EXCEPT
                                !.pc = "save",
                                !.loc.outcome = outcome,
                                !.loc.result = result,
                                !.loc.doc = NewGenerationRecord(a.user.id, a.request, now)])
    /\ UNCHANGED <<dbConnected, now, accountVars, resourceVars, generationVars,
                   oidCounter, providers, probe>>

\* save() resolves, or rejects and the catch pushes the record onto
\* memoryStore.generationResults; 200 either way
GenerateContentSave(s) ==
    /\ reqs[s].op = "generateContent" /\ reqs[s].pc = "save"
    /\ LET record == reqs[s].loc.doc
           rejection == GenerationSaveRejection(record, dbConnected)
       IN IF rejection = ""
          THEN /\ mGenerations' = Append(mGenerations, [record EXCEPT !._id = <<"oid", oidCounter>>])
               /\ oidCounter' = oidCounter + 1
               /\ Finish(s, Respond(reqs[s], 200, "generated",
                                 [id |-> <<"oid", oidCounter>>, result |-> reqs[s].loc.result]))
               /\ UNCHANGED generationResults
          ELSE /\ generationResults' = Append(generationResults, record)
               /\ Finish(s, Respond([reqs[s] EXCEPT !.loc.memoryUsed = TRUE,
                                                    !.loc.cause = rejection,
                                                    !.loc.reachable = dbConnected],
                                    200, "generated",
                                    [id |-> record._id, result |-> reqs[s].loc.result]))
               /\ UNCHANGED <<mGenerations, oidCounter>>
    /\ UNCHANGED <<dbConnected, now, accountVars, resourceVars, providers, probe>>

\* the id parameters generation requests carry
GenerationIdChoices == Ids(generationResults) \cup Ids(mGenerations) \cup AbsentIds

\* the records under this id that belong to other accounts (a ghost)
OthersRecords(list, id, userId) ==
    SelectSeq(list, LAMBDA g : g._id = id /\ g.userId # userId)

\* a request on /ai/:id arrives: the route answers 400 unless the id is an
\* ObjectId string; otherwise the handler awaits its query
GenerationByIdStart(s, op, principals) ==
    /\ SlotFree(s)
    /\ \E user \in principals, id \in GenerationIdChoices :
          LET r == [op |-> op, pc |-> "query", args |-> [user |-> user, id |-> id],
                    loc |-> [HandlerLoc EXCEPT
                               !.ownsTarget =
                                  \/ FindOwned(generationResults, id, user.id) # 0
                                  \/ FindOwned(mGenerations, id, user.id) # 0,
                               !.doc = OthersRecords(generationResults \o mGenerations,
                                                     id, user.id)],
                    res |-> Idle.res]
          IN IF ~Castable(id)
             THEN Finish(s, Respond(r, 400, "invalid id", <<>>))
             ELSE Suspend(s, r)
    /\ UNCHANGED <<dbConnected, now, accountVars, resourceVars, generationVars,
                   oidCounter, providers, probe>>

GetGenerationByIdStart(s, principals) == GenerationByIdStart(s, "getGenerationById", principals)
DeleteGenerationResultStart(s, principals) == GenerationByIdStart(s, "deleteGenerationResult", principals)

\* findOne({_id, userId}) settles, or rejects and the catch searches
\* memoryStore.generationResults
GetGenerationByIdQuery(s) ==
    /\ reqs[s].op = "getGenerationById" /\ reqs[s].pc = "query"
    /\ LET a == reqs[s].args
           rejection == QueryRejection(a.id, dbConnected)
           list == IF rejection = "" THEN mGenerations ELSE generationResults
           index == FindOwned(list, a.id, a.user.id)
           r == [reqs[s] EXCEPT !.loc.memoryUsed = (rejection # ""),
                                !.loc.cause = rejection,
                                !.loc.reachable = dbConnected,
                                !.loc.persistentNull = (rejection = "" /\ index = 0),
                                !.loc.volatileNull = (rejection # "" /\ index = 0)]
       IN IF index = 0
          THEN Finish(s, Respond(r, 404, MsgNotFound, <<>>))
          ELSE Finish(s, Respond(r, 200, "", [result |-> list[index]]))
    /\ UNCHANGED <<dbConnected, now, accountVars, resourceVars, generationVars,
                   oidCounter, providers, probe>>

\* findOneAndDelete({_id, userId}) settles, or rejects and the catch
\* splices the record out of memoryStore.generationResults
DeleteGenerationResultQuery(s) ==
    /\ reqs[s].op = "deleteGenerationResult" /\ reqs[s].pc = "query"
    /\ LET a == reqs[s].args
           rejection == QueryRejection(a.id, dbConnected)
           list == IF rejection = "" THEN mGenerations ELSE generationResults
           index == FindOwned(list, a.id, a.user.id)
           r == [reqs[s] EXCEPT !.loc.memoryUsed = (rejection # ""),
                                !.loc.cause = rejection,
                                !.loc.reachable = dbConnected,
                                !.loc.persistentNull = (rejection = "" /\ index = 0),
                                !.loc.volatileNull = (rejection # "" /\ index = 0)]
       IN /\ IF index = 0
             THEN Finish(s, Respond(r, 404, MsgNotFound, <<>>))
             ELSE Finish(s, Respond(r, 200, "deleted", <<>>))
          /\ mGenerations' = IF rejection = "" /\ index # 0
                             THEN Splice(mGenerations, index) ELSE mGenerations
          /\ generationResults' = IF rejection # "" /\ index # 0
                                  THEN Splice(generationResults, index)
                                  ELSE generationResults
    /\ UNCHANGED <<dbConnected, now, accountVars, resourceVars, oidCounter,
                   providers, probe>>

\* GET /ai/history arrives: the handler builds {userId} and awaits find and
\* countDocuments
GetGenerationHistoryStart(s, principals, pages, limits) ==
    /\ SlotFree(s)
    /\ \E user \in principals, page \in pages, limit \in limits :
          Suspend(s, [op |-> "getGenerationHistory", pc |-> "query",
                      args |-> [user |-> user, page |-> page, limit |-> limit],
                      loc |-> HandlerLoc, res |-> Idle.res])
    /\ UNCHANGED <<dbConnected, now, accountVars, resourceVars, generationVars,
                   oidCounter, providers, probe>>

\* the records of one account, in stored order
OwnedBy(list, userId) == SelectSeq(list, LAMBDA g : g.userId = userId)

\* sort((a, b) => b.createdAt - a.createdAt): newest first, records of one
\* clock reading in stored order
RECURSIVE SortNewestFirst(_)
SortNewestFirst(list) ==
    IF list = <<>> THEN <<>>
    ELSE LET newest == CHOOSE i \in 1..Len(list) :
                          /\ \A j \in 1..Len(list) : list[j].createdAt <= list[i].createdAt
                          /\ \A j \in 1..(i - 1) : list[j].createdAt < list[i].createdAt
         IN <<list[newest]>> \o SortNewestFirst(Splice(list, newest))

\* the catch of getGenerationHistory: memoryStore.generationResults filtered
\* by userId, sorted and sliced
HistoryFromMemory(s) ==
    LET a == reqs[s].args
        filteredResults == OwnedBy(generationResults, a.user.id)
        skip == (a.page - 1) * a.limit
        m == [reqs[s] EXCEPT
                 !.loc.memoryUsed = TRUE, !.loc.cause = "connectivity",
                 !.loc.reachable = dbConnected,
                 !.loc.page = SubSeq(SortNewestFirst(filteredResults), skip + 1,
                                     IF skip + a.limit > Len(filteredResults)
                                     THEN Len(filteredResults) ELSE skip + a.limit),
                 !.loc.total = Len(filteredResults)]
    IN Finish(s, Respond(m, 200, "",
              ListData("results", m.loc.page, a.page, a.limit, m.loc.total)))

\* find({userId}).sort({createdAt: -1}).skip(skip).limit(limit) is answered,
\* or rejects and the catch reads the volatile list
GetGenerationHistoryQuery(s) ==
    /\ reqs[s].op = "getGenerationHistory" /\ reqs[s].pc = "query"
    /\ ~reqs[s].loc.findDone
    /\ LET a == reqs[s].args
       IN IF dbConnected
          THEN ListSettle(s, [reqs[s] EXCEPT
                    !.loc.findDone = TRUE,
                    !.loc.page = MongoPage(MongoSort(OwnedBy(mGenerations, a.user.id),
                                                     "createdAt", 0 - 1),
                                           (a.page - 1) * a.limit, a.limit)],
                  "results")
          ELSE HistoryFromMemory(s)
    /\ UNCHANGED <<dbConnected, now, accountVars, resourceVars, generationVars,
                   oidCounter, providers, probe>>

\* countDocuments({userId}) is answered, or rejects and the catch reads the
\* volatile list
GetGenerationHistoryCount(s) ==
    /\ reqs[s].op = "getGenerationHistory" /\ reqs[s].pc = "query"
    /\ ~reqs[s].loc.countDone
    /\ IF dbConnected
       THEN ListSettle(s, [reqs[s] EXCEPT
                 !.loc.countDone = TRUE,
                 !.loc.total = Len(OwnedBy(mGenerations, reqs[s].args.user.id))],
               "results")
       ELSE HistoryFromMemory(s)
    /\ UNCHANGED <<dbConnected, now, accountVars, resourceVars, generationVars,
                   oidCounter, providers, probe>>

-----------------------------------------------------------------------------
(* Specification SpecListing: resources are created and listed while the
   connection comes and goes *)

\* the page size getResources uses when the query string names none
DefaultLimit == 20

InitHandlers ==
    /\ dbConnected \in BOOLEAN
    /\ now = 0
    /\ users = DemoUsers
    /\ boot = "done"
    /\ userIdCounter = Len(DemoUsers) + 1
    /\ mUsers = <<>>
    /\ resources = <<>>
    /\ resourceIdCounter = 1
    /\ mResources = <<>>
    /\ generationResults = <<>>
    /\ mGenerations = <<>>
    /\ oidCounter = 1
    /\ providers \in {Registry(env) : env \in {e \in Environments : ~e.claudeKey}}
    /\ reqs = [s \in Slots |-> Idle]
    /\ probe = NoProbe
    /\ last = Idle

InitListing == InitHandlers /\ providers = {"mock"}

ListingBodies ==
    { ResourceBody(isPublic, Undefined, TRUE) : isPublic \in {Undefined, Some(TRUE), Some(FALSE)} }

NextListing ==
    \/ Disconnect
    \/ Reconnect
    \/ \E s \in Slots : CreateResourceStart(s, {Teacher1, Student2}, ListingBodies)
    \/ \E s \in Slots : CreateResourceSave(s)
    \/ \E s \in OneAtATime : GetResourcesStart(s, {Student2, Admin3}, {1}, {DefaultLimit}, {DefaultSort})
    \/ \E s \in OneAtATime : GetResourcesFind(s)
    \/ \E s \in OneAtATime : GetResourcesCount(s)

SpecListing == InitListing /\ [][NextListing]_vars

\* the caller may see the record: creator, public, or the caller is admin
Visible(record, user) ==
    \/ record.creator = user.id
    \/ record.isPublic = Some(TRUE)
    \/ user.role = "admin"

\* the ids of the records of a backend that the caller may see
VisibleIds(store, user) ==
    {store[i]._id : i \in {j \in 1..Len(store) : Visible(store[j], user)}}

\* the activation of slot s after this step: still suspended, or answered
After(s) == IF reqs'[s].op = "idle" THEN last' ELSE reqs'[s]

\* C3: whichever backend serves a getResources request without filters, on
\* a page that holds the whole result, the listing a read returns holds
\* exactly the records of that backend that the caller created or that are
\* public, and every record when the caller is an admin; the count counts
\* the same records, and the response carries what the reads returned
C3_ListingVisibility ==
    [][\A s \in Slots :
          reqs[s].op = "getResources"
          => LET user == reqs[s].args.user
                 r == After(s)
             IN /\ (r.loc.memoryUsed /\ r.res.status = 200)
                      => /\ Ids(r.loc.page) = VisibleIds(resources, user)
                         /\ Len(r.loc.page) = Cardinality(VisibleIds(resources, user))
                         /\ r.loc.total = Cardinality(VisibleIds(resources, user))
                /\ (~r.loc.memoryUsed /\ ~reqs[s].loc.findDone /\ r.loc.findDone)
                      => /\ Ids(r.loc.page) = VisibleIds(mResources, user)
                         /\ Len(r.loc.page) = Cardinality(VisibleIds(mResources, user))
                /\ (~r.loc.memoryUsed /\ ~reqs[s].loc.countDone /\ r.loc.countDone)
                      => r.loc.total = Cardinality(VisibleIds(mResources, user))
                /\ r.res.status = 200
                      => /\ r.res.data.resources = r.loc.page
                         /\ r.res.data.total = r.loc.total]_vars

\* the volatile store answered a student's listing with another account's
\* public record and withheld that account's private one
C3_Witness ==
    /\ last.op = "getResources" /\ last.res.status = 200
    /\ last.loc.memoryUsed
    /\ last.args.user = Student2
    /\ Len(resources) = 2
    /\ \E i, j \in 1..Len(resources) :
          /\ resources[i].creator = "u1" /\ resources[i].isPublic = Some(TRUE)
          /\ resources[i]._id \in Ids(last.res.data.resources)
          /\ resources[j].creator = "u1" /\ resources[j].isPublic # Some(TRUE)
          /\ resources[j]._id \notin Ids(last.res.data.resources)

-----------------------------------------------------------------------------
(* Specification SpecById: resources and generation records are created,
   read and deleted by id while the connection comes and goes *)

ByIdBodies ==
    { ResourceBody(Some(TRUE), Some(ClientOid), TRUE),
      ResourceBody(Undefined, Undefined, FALSE) }

ByIdRequests == { [type |-> "text", provider |-> "mock", model |-> ""] }

InitById == InitHandlers /\ providers = {"mock"}

NextById ==
    \/ Disconnect
    \/ Reconnect
    \/ \E s \in OneAtATime : CreateResourceStart(s, {Teacher1}, ByIdBodies)
    \/ \E s \in OneAtATime : CreateResourceSave(s)
    \/ \E s \in OneAtATime : GetResourceByIdStart(s, {Teacher1, Student2}, IdChoices)
    \/ \E s \in OneAtATime : GetResourceByIdFind(s)
    \/ \E s \in OneAtATime : GetResourceByIdSave(s)
    \/ \E s \in OneAtATime : DeleteResourceStart(s, {Teacher1}, IdChoices)
    \/ \E s \in OneAtATime : DeleteResourceFind(s)
    \/ \E s \in OneAtATime : DeleteResourceDelete(s)
    \/ \E s \in OneAtATime : GenerateContentStart(s, {Teacher1}, ByIdRequests)
    \/ \E s \in OneAtATime : GenerateContentCall(s)
    \/ \E s \in OneAtATime : GenerateContentSave(s)
    \/ \E s \in OneAtATime : GetGenerationByIdStart(s, {Teacher1})
    \/ \E s \in OneAtATime : GetGenerationByIdQuery(s)
    \/ \E s \in OneAtATime : DeleteGenerationResultStart(s, {Teacher1})
    \/ \E s \in OneAtATime : DeleteGenerationResultQuery(s)

SpecById == InitById /\ [][NextById]_vars

HandlerOps ==
    {"createResource", "getResources", "getResourceById", "updateResource",
     "deleteResource", "likeResource", "publishResource", "generateContent",
     "getGenerationById", "deleteGenerationResult"}

\* C8: a handler reads or writes the volatile store only when the
\* persistent backend was unreachable or its call failed for lack of a
\* connection
C8_FallbackOnlyOnConnectivity ==
    (last.op \in HandlerOps /\ last.loc.memoryUsed)
    => (~last.loc.reachable \/ last.loc.cause = "connectivity")

ByIdOps ==
    {"getResourceById", "deleteResource", "getGenerationById", "deleteGenerationResult"}

\* C9: a lookup or delete by id that the persistent backend answered with
\* nothing ends in 404 and never consults the volatile store; one that the
\* volatile store answered with nothing ends in 404 and makes no persistent
\* call afterwards
C9_AbsentNotRetried ==
    last.op \in ByIdOps =>
        /\ last.loc.persistentNull =>
              /\ last.res.status = 404
              /\ ~last.loc.memoryUsed
        /\ last.loc.volatileNull =>
              /\ last.res.status = 404
              /\ ~last.loc.persistentAfterVolatile

\* a read by id was answered 404 from the persistent backend while the
\* volatile store holds a record under that very id
C9_Witness ==
    /\ last.op = "getResourceById"
    /\ last.loc.persistentNull
    /\ last.res.status = 404
    /\ FindIndex(resources, last.args.id) # 0

-----------------------------------------------------------------------------
(* Specification SpecViews: a public resource the teacher stored earlier
   is read by id, concurrently, while the connection comes and goes *)

\* one public resource of the teacher is in the persistent collection
InitStored ==
    /\ dbConnected \in BOOLEAN
    /\ now = 0
    /\ users = DemoUsers
    /\ boot = "done"
    /\ userIdCounter = Len(DemoUsers) + 1
    /\ mUsers = <<>>
    /\ resources = <<>>
    /\ resourceIdCounter = 1
    /\ mResources = << NewMongoResource(
                          MakeResourceData(ResourceBody(Some(TRUE), Undefined, TRUE), "u1"),
                          1, 0) >>
    /\ generationResults = <<>>
    /\ mGenerations = <<>>
    /\ oidCounter = 2
    /\ providers = {"mock"}
    /\ reqs = [s \in Slots |-> Idle]
    /\ probe = NoProbe
    /\ last = Idle

NextViews ==
    \/ Disconnect
    \/ Reconnect
    \/ \E s \in Slots : GetResourceByIdStart(s, {Teacher1, Student2}, Ids(mResources) \cup {ClientOid})
    \/ \E s \in Slots : GetResourceByIdFind(s)
    \/ \E s \in Slots : GetResourceByIdSave(s)

SpecViews == InitStored /\ [][NextViews]_vars

\* the views a record shows, an unset counter showing none
ViewsShown(record) == IF record.views = Undefined THEN 0 ELSE record.views[1]

\* C4: once no read of a stored resource is in flight, its views counter has
\* grown by exactly the number of reads that returned it to an account other
\* than its creator, on either backend
C4_ViewsCountReads ==
    /\ \A i \in 1..Len(mResources) :
          Pending("getResourceById", mResources[i]._id) = 0
          => ViewsShown(mResources[i]) = mResources[i].reads
    /\ \A i \in 1..Len(resources) :
          Pending("getResourceById", resources[i]._id) = 0
          => ViewsShown(resources[i]) = resources[i].reads

-----------------------------------------------------------------------------
(* Specification SpecLikes: a public resource the teacher stored earlier
   is liked and unliked while the connection comes and goes *)

NextLikes ==
    \/ Disconnect
    \/ Reconnect
    \/ \E s \in Slots : LikeResourceStart(s, {Teacher1, Student2}, Ids(mResources) \cup {ClientOid})
    \/ \E s \in Slots : LikeResourceFind(s)
    \/ \E s \in Slots : LikeResourceSave(s)

SpecLikes == InitStored /\ [][NextLikes]_vars

\* how often the account occurs in the likes list
Occurrences(likes, userId) == Cardinality({i \in 1..Len(likes) : likes[i] = userId})

\* the accounts with an odd number of answered like requests
OddTogglers(doc) == {u \in AccountIds : doc.toggles[u] % 2 = 1}

\* C5: as long as no like request was saved over a read that another one
\* had made stale, an account that was answered N like requests occurs in
\* the likes list N mod 2 times, and each answer reports liked = (N odd) and
\* a likesCount of the accounts with an odd N
C5_LikeToggleParity ==
    /\ \A i \in 1..Len(mResources) :
          ~mResources[i].raced =>
             \A u \in AccountIds :
                Occurrences(mResources[i].likes[1], u) = mResources[i].toggles[u] % 2
    /\ (last.op = "likeResource" /\ last.res.status = 200 /\ ~last.loc.doc.raced)
       => /\ last.res.data.likesCount = Cardinality(OddTogglers(last.loc.doc))
          /\ last.res.data.liked = (last.args.user.id \in OddTogglers(last.loc.doc))

\* the student's second like of a resource the teacher still likes was
\* answered: the student is gone from the list, one like remains
C5_Witness ==
    /\ last.op = "likeResource" /\ last.res.status = 200
    /\ last.args.user = Student2
    /\ ~last.loc.doc.raced
    /\ last.loc.doc.toggles["u2"] = 2
    /\ last.loc.doc.toggles["u1"] = 1
    /\ last.res.data.liked = FALSE
    /\ last.res.data.likesCount = 1

-----------------------------------------------------------------------------
\* C12: an image request whose selected adapter has no generateImage fails,
\* with an error other than the adapter-not-found one; no result produced
\* by another capability is returned
C12_ImageWithoutCapabilityFails ==
    (/\ probe.kind = "generate"
     /\ probe.request.type = "image"
     /\ ~HasGenerateImage(SelectProvider(providers, probe.request)))
       => /\ probe.outcome.threw
          /\ probe.outcome.error # "unsupported provider"

(* Specification SpecDown: a sequence of requests served while the
   persistent backend is unreachable throughout *)

InitDown == InitById /\ ~dbConnected

DownBodies ==
    { ResourceBody(Some(TRUE), Undefined, TRUE), ResourceBody(Undefined, Undefined, FALSE) }

DownUpdates == { UpdateBody(Some(<<"b">>), Undefined, Undefined) }

NextDown ==
    \/ \E s \in OneAtATime : CreateResourceStart(s, {Teacher1}, DownBodies)
    \/ \E s \in OneAtATime : CreateResourceSave(s)
    \/ \E s \in OneAtATime : GetResourcesStart(s, {Teacher1, Student2}, {1}, {DefaultLimit}, {DefaultSort})
    \/ \E s \in OneAtATime : GetResourcesFind(s)
    \/ \E s \in OneAtATime : GetResourcesCount(s)
    \/ \E s \in OneAtATime : GetResourceByIdStart(s, {Teacher1, Student2}, IdChoices)
    \/ \E s \in OneAtATime : GetResourceByIdFind(s)
    \/ \E s \in OneAtATime : UpdateResourceStart(s, {Teacher1}, IdChoices, DownUpdates)
    \/ \E s \in OneAtATime : UpdateResourceFind(s)
    \/ \E s \in OneAtATime : DeleteResourceStart(s, {Teacher1}, IdChoices)
    \/ \E s \in OneAtATime : DeleteResourceFind(s)
    \/ \E s \in OneAtATime : LikeResourceStart(s, {Teacher1, Student2}, IdChoices)
    \/ \E s \in OneAtATime : LikeResourceFind(s)
    \/ \E s \in OneAtATime : PublishResourceStart(s, {Teacher1}, IdChoices)
    \/ \E s \in OneAtATime : PublishResourceFind(s)
    \/ \E s \in OneAtATime : GenerateContentStart(s, {Teacher1}, ByIdRequests)
    \/ \E s \in OneAtATime : GenerateContentCall(s)
    \/ \E s \in OneAtATime : GenerateContentSave(s)
    \/ \E s \in OneAtATime : GetGenerationByIdStart(s, {Teacher1})
    \/ \E s \in OneAtATime : GetGenerationByIdQuery(s)
    \/ \E s \in OneAtATime : DeleteGenerationResultStart(s, {Teacher1})
    \/ \E s \in OneAtATime : DeleteGenerationResultQuery(s)

SpecDown == InitDown /\ [][NextDown]_vars

\* the request would succeed against a reachable persistent backend: a
\* create or a listing, a generation whose provider is registered and whose
\* adapter answers, an operation by id on a record the caller created
WouldSucceed(r) ==
    IF r.op \in {"createResource", "getResources"} THEN TRUE
    ELSE IF r.op = "generateContent"
    THEN r.loc.cause # "adapter" /\ r.res.status # 400
    ELSE r.loc.ownsTarget

\* C7: with the persistent backend unreachable throughout, every such
\* request is answered with its success status, never with an error
C7_FallbackTransparent ==
    (last.op \in HandlerOps /\ WouldSucceed(last)) => last.res.status \in {200, 201}

-----------------------------------------------------------------------------
(* Specification SpecGenerate: POST /ai/generate requests naming each
   provider the route admits, against each registry *)

GenerateRequests ==
    { r \in GenerationRequests : r.provider \in RouteProviders /\ r.model = "" }

NextGenerate ==
    \/ Disconnect
    \/ Reconnect
    \/ \E s \in OneAtATime : GenerateContentStart(s, {Teacher1}, GenerateRequests)
    \/ \E s \in OneAtATime : GenerateContentCall(s)
    \/ \E s \in OneAtATime : GenerateContentSave(s)
    \/ \E s \in OneAtATime : DeleteGenerationResultStart(s, {Teacher1})
    \/ \E s \in OneAtATime : DeleteGenerationResultQuery(s)

SpecGenerate == InitHandlers /\ [][NextGenerate]_vars

\* C11: a generation request through the handler that names a provider with
\* no registered adapter is answered with the success envelope, its result
\* produced by the mock adapter
C11_UnregisteredProviderServedByMock ==
    (last.op = "generateContent" /\ last.args.request.provider \notin providers)
       => /\ last.res.status = 200
          /\ last.res.data.result.provider = "mock"

-----------------------------------------------------------------------------
(* Specification SpecOwnership: two accounts generate, list, read and delete
   generation records while the connection comes and goes *)

NextOwnership ==
    \/ Disconnect
    \/ Reconnect
    \/ Tick
    \/ \E s \in OneAtATime : GenerateContentStart(s, {Teacher1, Student2}, ByIdRequests)
    \/ \E s \in OneAtATime : GenerateContentCall(s)
    \/ \E s \in OneAtATime : GenerateContentSave(s)
    \/ \E s \in OneAtATime : GetGenerationHistoryStart(s, {Teacher1, Student2}, {1}, {DefaultLimit})
    \/ \E s \in OneAtATime : GetGenerationHistoryQuery(s)
    \/ \E s \in OneAtATime : GetGenerationHistoryCount(s)
    \/ \E s \in OneAtATime : GetGenerationByIdStart(s, {Teacher1, Student2})
    \/ \E s \in OneAtATime : GetGenerationByIdQuery(s)
    \/ \E s \in OneAtATime : DeleteGenerationResultStart(s, {Teacher1, Student2})
    \/ \E s \in OneAtATime : DeleteGenerationResultQuery(s)

SpecOwnership == InitById /\ [][NextOwnership]_vars

\* every record of the sequence is currently stored
AllStored(records) ==
    \A i \in 1..Len(records) :
       \E j \in 1..Len(generationResults \o mGenerations) :
          (generationResults \o mGenerations)[j] = records[i]

\* C13: a generation record never appears in the history of an account
\* other than its owner, and a lookup or a delete by such an account under
\* the record's id answers 404 and leaves the record stored
C13_GenerationsOwnerOnly ==
    /\ last.op = "getGenerationHistory" =>
          \A i \in 1..Len(last.res.data.results) :
             last.res.data.results[i].userId = last.args.user.id
    /\ (last.op \in {"getGenerationById", "deleteGenerationResult"}
           /\ last.loc.doc # <<>>)
          => /\ last.res.status = 404
             /\ AllStored(last.loc.doc)

\* the same without the status: the other account's record is not in the
\* history, not in the answer, and still stored
C13_Isolation ==
    /\ last.op = "getGenerationHistory" =>
          \A i \in 1..Len(last.res.data.results) :
             last.res.data.results[i].userId = last.args.user.id
    /\ (last.op \in {"getGenerationById", "deleteGenerationResult"}
           /\ last.loc.doc # <<>>)
          => /\ last.res.status \in {400, 404}
             /\ last.res.data = <<>>
             /\ AllStored(last.loc.doc)

-----------------------------------------------------------------------------
(* MemoryStore: the account methods *)

\* {...record, ...updateData}
Spread(record, updateData) ==
    [f \in DOMAIN record \cup DOMAIN updateData |->
        IF f \in DOMAIN updateData THEN updateData[f] ELSE record[f]]

\* find(user => user.email === email): the first index, 0 for null
RECURSIVE FindEmailFrom(_, _, _)
FindEmailFrom(accounts, email, i) ==
    IF i > Len(accounts) THEN 0
    ELSE IF accounts[i].email = email THEN i
    ELSE FindEmailFrom(accounts, email, i + 1)
findUserByEmail(accounts, email) == FindEmailFrom(accounts, email, 1)

\* MemoryStore.findUserById: users.get(id) || null, as an index, 0 for null
findUserById(accounts, id) == FindIndex(accounts, id)

\* an updateUser that stores the data under an id it does not know
updateUserUpsert(accounts, id, updateData, clock) ==
    LET index == FindIndex(accounts, id)
    IN IF index = 0
       THEN [found |-> FALSE,
             store |-> Append(accounts, Spread([_id |-> id, updatedAt |-> clock], updateData)),
             user |-> <<>>]
       ELSE [found |-> TRUE,
             store |-> [accounts EXCEPT ![index] =
                          [Spread(@, updateData) EXCEPT !.updatedAt = clock]],
             user |-> [Spread(accounts[index], updateData) EXCEPT !.updatedAt = clock]]

\* MemoryStore.updateUser: null for an id that is not stored, else the
\* record it stored (user)
updateUser(accounts, id, updateData, clock) ==
    LET index == FindIndex(accounts, id)
    IN IF index = 0 THEN [found |-> FALSE, store |-> accounts, user |-> <<>>]
       ELSE [found |-> TRUE,
             store |-> [accounts EXCEPT ![index] =
                          [Spread(@, updateData) EXCEPT !.updatedAt = clock]],
             user |-> [Spread(accounts[index], updateData) EXCEPT !.updatedAt = clock]]

\* MemoryStore.updateUserPassword after `await bcrypt.hash`: the account as
\* it was read before the await is stored again with the new hash and
\* updatedAt
updateUserPassword(accounts, user, newPassword, clock) ==
    SetUser(accounts, [user EXCEPT !.password = BcryptHash(newPassword),
                                   !.updatedAt = clock])

-----------------------------------------------------------------------------
(* authController.login *)

MsgInvalidLogin == "invalid email or password"
MsgLoggedIn == "logged in"
MsgLoginFailed == "login failed, retry later"

LoginBody(email, password) == [email |-> email, password |-> password]

\* the locals of a login activation: the backend the selector chose and the
\* user it loaded; ghosts: whether that backend held an account with this
\* email, and one with this email and password, when the request arrived,
\* the accounts of both backends at that moment, and whether a persistent
\* call failed because the connection was down; stamp is the clock read by
\* `user.lastLoginAt = new Date()` and by the timestamps hook of save()
LoginLoc(backend, accounts, body) ==
    [backend |-> backend, user |-> <<>>,
     emailKnown |-> \E i \in 1..Len(accounts) : accounts[i].email = body.email,
     credentialsRight |-> \E i \in 1..Len(accounts) :
                             /\ accounts[i].email = body.email
                             /\ accounts[i].password[2] = body.password,
     before |-> <<users, mUsers>>, connErr |-> FALSE, stamp |-> 0]

\* the user object of the updateProfile response, read from the record the
\* update returned
ProfileUserData(user) ==
    [id |-> user._id, username |-> user.username, email |-> user.email,
     role |-> user.role, profile |-> user.profile]

\* the user object of the login response
LoginUserData(user) ==
    [id |-> user._id, username |-> user.username, email |-> user.email,
     role |-> user.role]

\* a handler that asks the selector again after each await
SelectorAtEachStep(r) == shouldUseMemoryStore

\* whether the activation runs inside the `if (shouldUseMemoryStore())`
\* block of its handler: decided once, when the handler evaluated the
\* condition
InMemoryBranch(r) ==
    IF r.op = "login" THEN r.loc.backend = "memory" ELSE r.loc.handlerBackend = "memory"

\* the request arrives: the selector is read; in memory mode findUserByEmail
\* answers, 401 for no account, otherwise the password comparison is awaited
LoginStart(s, bodies) ==
    /\ SlotFree(s)
    /\ \E body \in bodies :
          IF shouldUseMemoryStore
          THEN LET index == findUserByEmail(users, body.email)
                   r == [op |-> "login", pc |-> "compare", args |-> body,
                         loc |-> LoginLoc("memory", users, body), res |-> Idle.res]
               IN IF index = 0
                  THEN Finish(s, Respond(r, 401, MsgInvalidLogin, <<>>))
                  ELSE Suspend(s, [r EXCEPT !.loc.user = users[index]])
          ELSE Suspend(s, [op |-> "login", pc |-> "findOne", args |-> body,
                           loc |-> LoginLoc("mongo", mUsers, body), res |-> Idle.res])
    /\ UNCHANGED <<dbConnected, now, accountVars, resourceVars, generationVars,
                   oidCounter, providers, probe>>

\* UserModel.findOne({email}) resolves or rejects
LoginFindOne(s) ==
    /\ reqs[s].op = "login" /\ reqs[s].pc = "findOne"
    /\ LET index == findUserByEmail(mUsers, reqs[s].args.email)
       IN IF ~dbConnected
          THEN Finish(s, Respond([reqs[s] EXCEPT !.loc.connErr = TRUE],
                                 500, MsgLoginFailed, <<>>))
          ELSE IF index = 0
          THEN Finish(s, Respond(reqs[s], 401, MsgInvalidLogin, <<>>))
          ELSE Suspend(s, [reqs[s] EXCEPT !.pc = "compare", !.loc.user = mUsers[index]])
    /\ UNCHANGED <<dbConnected, now, accountVars, resourceVars, generationVars,
                   oidCounter, providers, probe>>

\* bcrypt.compare resolves: 401 for a mismatch; in memory mode updateUser
\* stores lastLoginAt and the answer is 200 with the token; in persistent
\* mode user.save() is awaited
LoginCompare(s) ==
    /\ reqs[s].op = "login" /\ reqs[s].pc = "compare"
    /\ LET user == reqs[s].loc.user
       IN IF ~BcryptCompare(reqs[s].args.password, user.password)
          THEN /\ Finish(s, Respond(reqs[s], 401, MsgInvalidLogin, <<>>))
               /\ UNCHANGED users
          ELSE IF InMemoryBranch(reqs[s])
          THEN /\ users' = updateUser(users, user._id, [lastLoginAt |-> Some(now)], now).store
               /\ Finish(s, Respond(reqs[s], 200, MsgLoggedIn,
                                    [user |-> LoginUserData(user),
                                     token |-> generateToken(user._id)]))
          ELSE /\ Suspend(s, [reqs[s] EXCEPT !.pc = "save", !.loc.stamp = now])
               /\ UNCHANGED users
    /\ UNCHANGED <<dbConnected, now, userIdCounter, boot, mUsers, resourceVars,
                   generationVars, oidCounter, providers, probe>>

\* user.save() with lastLoginAt set resolves or rejects; both dates were
\* read before the await
LoginSave(s) ==
    /\ reqs[s].op = "login" /\ reqs[s].pc = "save"
    /\ LET user == reqs[s].loc.user
           index == FindIndex(mUsers, user._id)
       IN IF ~dbConnected \/ index = 0
          THEN /\ Finish(s, Respond([reqs[s] EXCEPT !.loc.connErr = ~dbConnected],
                                    500, MsgLoginFailed, <<>>))
               /\ UNCHANGED mUsers
          ELSE /\ mUsers' = [mUsers EXCEPT
                               ![index].lastLoginAt = Some(reqs[s].loc.stamp),
                               ![index].updatedAt = reqs[s].loc.stamp]
               /\ Finish(s, Respond(reqs[s], 200, MsgLoggedIn,
                                    [user |-> LoginUserData(user),
                                     token |-> generateToken(user._id)]))
    /\ UNCHANGED <<dbConnected, now, users, userIdCounter, boot, resourceVars,
                   generationVars, oidCounter, providers, probe>>

-----------------------------------------------------------------------------
(* Specification SpecLogin: logins against both backends, each holding
   accounts the other does not *)

\* an account registered while the database was connected
MongoAccount ==
    NewMongoUser([username |-> "m01", email |-> "m1@x.com", password |-> "Secret1",
                  role |-> "teacher"], 1, 0)

InitAccounts ==
    /\ dbConnected \in BOOLEAN
    /\ now = 0
    /\ users = DemoUsers
    /\ boot = "done"
    /\ userIdCounter = Len(DemoUsers) + 1
    /\ mUsers = << MongoAccount >>
    /\ resources = <<>>
    /\ resourceIdCounter = 1
    /\ mResources = <<>>
    /\ generationResults = <<>>
    /\ mGenerations = <<>>
    /\ oidCounter = 2
    /\ providers = {"mock"}
    /\ reqs = [s \in Slots |-> Idle]
    /\ probe = NoProbe
    /\ last = Idle

LoginBodies ==
    { LoginBody(email, password) :
        email \in {"teacher@example.com", "m1@x.com", "nobody@x.com"},
        password \in {"Teacher123", "Secret1"} }

NextLogin ==
    \/ Disconnect
    \/ Reconnect
    \/ Tick
    \/ \E s \in OneAtATime : LoginStart(s, LoginBodies)
    \/ \E s \in OneAtATime : LoginFindOne(s)
    \/ \E s \in OneAtATime : LoginCompare(s)
    \/ \E s \in OneAtATime : LoginSave(s)

SpecLogin == InitAccounts /\ [][NextLogin]_vars

\* C14: a login whose email matches no account of its backend and a login
\* with a registered email and a wrong password get one and the same answer
\* on both backends, 401 with the generic message, no token and no user
\* data, and leave the accounts of both backends as they were
C14_LoginFailuresAlike ==
    (last.op = "login" /\ ~last.loc.credentialsRight)
       => /\ last.res = [status |-> 401, message |-> MsgInvalidLogin, data |-> <<>>]
          /\ <<users, mUsers>> = last.loc.before

\* the answer of a failing login does not depend on which field was wrong:
\* it is the 401 above, or 500 'login failed' when findOne of the persistent
\* backend was cut off by a connection loss, without data or a write in
\* either case
C14_FailuresIndistinguishable ==
    (last.op = "login" /\ ~last.loc.credentialsRight)
       => /\ last.res = IF last.loc.connErr
                        THEN [status |-> 500, message |-> MsgLoginFailed, data |-> <<>>]
                        ELSE [status |-> 401, message |-> MsgInvalidLogin, data |-> <<>>]
          /\ last.loc.connErr => (last.loc.backend = "mongo" /\ last.loc.user = <<>>)
          /\ <<users, mUsers>> = last.loc.before

\* a login with the email of a persistent account and another account's
\* password was answered by the persistent backend after the comparison
C14_Witness ==
    /\ last.op = "login"
    /\ last.loc.backend = "mongo"
    /\ last.loc.emailKnown /\ ~last.loc.credentialsRight
    /\ last.loc.user # <<>>
    /\ last.res.status = 401

-----------------------------------------------------------------------------
(* Specification SpecSelector: the driver's connection walks through its
   states while the selector is called, directly and by login *)

\* mongoose.connection.readyState
Disconnected == 0
Connected == 1
Connecting == 2

\* the moves of the driver: connect() starts (also the automatic
\* reconnection), succeeds or fails, and an established connection drops
DriverTransitions ==
    { <<Disconnected, Connecting>>, <<Connecting, Connected>>,
      <<Connecting, Disconnected>>, <<Connected, Disconnected>> }

\* probe holds the driver's readyState and the record of the latest direct
\* call of the selector: its answer, the answer of the call before it, and
\* whether the driver has moved since (fresh is FALSE once it has)
InitSelector ==
    /\ dbConnected = FALSE
    /\ now = 0
    /\ users = DemoUsers
    /\ boot = "done"
    /\ userIdCounter = Len(DemoUsers) + 1
    /\ mUsers = << MongoAccount >>
    /\ resources = <<>>
    /\ resourceIdCounter = 1
    /\ mResources = <<>>
    /\ generationResults = <<>>
    /\ mGenerations = <<>>
    /\ oidCounter = 2
    /\ providers = {"mock"}
    /\ reqs = [s \in Slots |-> Idle]
    /\ last = Idle
    /\ probe = [kind |-> "selector", readyState |-> Disconnected, answer |-> "none",
                previous |-> "none", threw |-> FALSE, fresh |-> FALSE]

\* dbConnected is readyState === 1
DriverEvent ==
    /\ \E t \in DriverTransitions :
          /\ probe.readyState = t[1]
          /\ probe' = [probe EXCEPT !.readyState = t[2], !.fresh = FALSE]
          /\ dbConnected' = (t[2] = Connected)
    /\ UNCHANGED <<now, accountVars, resourceVars, generationVars, oidCounter,
                   providers, reqs, last>>

\* shouldUseMemoryStore() is called
SelectorCall ==
    /\ probe' = [probe EXCEPT !.answer = IF shouldUseMemoryStore THEN "volatile"
                                          ELSE "persistent",
                              !.previous = probe.answer,
                              !.threw = FALSE,
                              !.fresh = TRUE]
    /\ UNCHANGED <<dbConnected, now, accountVars, resourceVars, generationVars,
                   oidCounter, providers, reqs, last>>

NextSelector ==
    \/ DriverEvent
    \/ SelectorCall
    \/ \E s \in OneAtATime : LoginStart(s, LoginBodies)
    \/ \E s \in OneAtATime : LoginFindOne(s)
    \/ \E s \in OneAtATime : LoginCompare(s)
    \/ \E s \in OneAtATime : LoginSave(s)

SpecSelector == InitSelector /\ [][NextSelector]_vars

\* C15: every call of the selector returns, and answers 'use volatile'
\* exactly when the driver's readyState at that moment is not connected,
\* whatever it answered before
C15_SelectorLive ==
    probe.fresh => /\ ~probe.threw
                   /\ (probe.answer = "volatile") = (probe.readyState # Connected)
                   /\ probe.answer \in {"volatile", "persistent"}

\* the selector answered 'use volatile' right after having answered
\* 'persistent', and a login was routed to each backend along the way
C15_Witness ==
    /\ probe.fresh
    /\ probe.previous = "persistent"
    /\ probe.answer = "volatile"
    /\ last.op = "login" /\ last.loc.backend = "mongo"

\* the selector answered 'persistent' right after having answered 'use
\* volatile'
C15_WitnessReconnected ==
    /\ probe.fresh
    /\ probe.previous = "volatile"
    /\ probe.answer = "persistent"

-----------------------------------------------------------------------------
(* Specification SpecGuard: a private resource of the teacher in each
   backend is updated, published and deleted by the teacher, a student and
   an admin while the connection comes and goes *)

InitGuard ==
    /\ dbConnected \in BOOLEAN
    /\ now = 0
    /\ users = DemoUsers
    /\ boot = "done"
    /\ userIdCounter = Len(DemoUsers) + 1
    /\ mUsers = <<>>
    /\ resources = << NewMemoryResource(
                         MakeResourceData(ResourceBody(Some(FALSE), Undefined, TRUE), "u1"),
                         1, 0) >>
    /\ resourceIdCounter = 2
    /\ mResources = << NewMongoResource(
                          MakeResourceData(ResourceBody(Some(FALSE), Undefined, TRUE), "u1"),
                          1, 0) >>
    /\ generationResults = <<>>
    /\ mGenerations = <<>>
    /\ oidCounter = 2
    /\ providers = {"mock"}
    /\ reqs = [s \in Slots |-> Idle]
    /\ probe = NoProbe
    /\ last = Idle

GuardPrincipals == {Teacher1, Student2, Admin3}
GuardIds == {<<"resource", 1>>, <<"oid", 1>>}
GuardUpdates == { UpdateBody(Some(<<"b">>), Undefined, Undefined) }

NextGuard ==
    \/ Disconnect
    \/ Reconnect
    \/ Tick
    \/ \E s \in OneAtATime : UpdateResourceStart(s, GuardPrincipals, GuardIds, GuardUpdates)
    \/ \E s \in OneAtATime : UpdateResourceFind(s)
    \/ \E s \in OneAtATime : UpdateResourceUpdate(s)
    \/ \E s \in OneAtATime : DeleteResourceStart(s, GuardPrincipals, GuardIds)
    \/ \E s \in OneAtATime : DeleteResourceFind(s)
    \/ \E s \in OneAtATime : DeleteResourceDelete(s)
    \/ \E s \in OneAtATime : PublishResourceStart(s, GuardPrincipals, GuardIds)
    \/ \E s \in OneAtATime : PublishResourceFind(s)
    \/ \E s \in OneAtATime : PublishResourceSave(s)

SpecGuard == InitGuard /\ [][NextGuard]_vars

\* some backend stores a resource under this id
Stored(id) == id \in Ids(resources) \cup Ids(mResources)

\* the account may perform the operation on the resource it names: its
\* creator, or, except for publishing, an admin
Entitled(r) ==
    \/ OwnsResource(r.args.id, r.args.user.id)
    \/ r.op # "publishResource" /\ r.args.user.role = "admin"

\* C16: an update, a delete or a publish of a stored resource by an account
\* that is not entitled to it leaves both stores as they were at every step
\* of the request, and the request ends with 403
C16_OnlyEntitledMutate ==
    [][\A s \in Slots :
          (/\ reqs[s].op \in {"updateResource", "deleteResource", "publishResource"}
           /\ reqs'[s] # reqs[s]
           /\ Stored(reqs[s].args.id)
           /\ ~Entitled(reqs[s]))
          => /\ resources' = resources
             /\ mResources' = mResources
             /\ reqs'[s] = Idle => last'.res.status = 403]_vars

\* the same without the status: such a request never changes a store and
\* never ends in success
C16_NoMutation ==
    [][\A s \in Slots :
          (/\ reqs[s].op \in {"updateResource", "deleteResource", "publishResource"}
           /\ reqs'[s] # reqs[s]
           /\ Stored(reqs[s].args.id)
           /\ ~Entitled(reqs[s]))
          => /\ resources' = resources
             /\ mResources' = mResources
             /\ reqs'[s] = Idle => last'.res.status \in {403, 404, 500}]_vars

-----------------------------------------------------------------------------
(* Specification SpecRead: a private and a public resource of the teacher
   in each backend are read by id by the teacher, a student and an admin
   while the connection comes and goes *)

InitRead ==
    /\ dbConnected \in BOOLEAN
    /\ now = 0
    /\ users = DemoUsers
    /\ boot = "done"
    /\ userIdCounter = Len(DemoUsers) + 1
    /\ mUsers = <<>>
    /\ resources = << NewMemoryResource(
                         MakeResourceData(ResourceBody(Some(FALSE), Undefined, TRUE), "u1"),
                         1, 0),
                      NewMemoryResource(
                         MakeResourceData(ResourceBody(Some(TRUE), Undefined, TRUE), "u1"),
                         2, 0) >>
    /\ resourceIdCounter = 3
    /\ mResources = << NewMongoResource(
                          MakeResourceData(ResourceBody(Some(FALSE), Undefined, TRUE), "u1"),
                          1, 0),
                       NewMongoResource(
                          MakeResourceData(ResourceBody(Some(TRUE), Undefined, TRUE), "u1"),
                          2, 0) >>
    /\ generationResults = <<>>
    /\ mGenerations = <<>>
    /\ oidCounter = 3
    /\ providers = {"mock"}
    /\ reqs = [s \in Slots |-> Idle]
    /\ probe = NoProbe
    /\ last = Idle

ReadIds == {<<"resource", 1>>, <<"resource", 2>>, <<"oid", 1>>, <<"oid", 2>>}

NextRead ==
    \/ Disconnect
    \/ Reconnect
    \/ \E s \in OneAtATime : GetResourceByIdStart(s, {Teacher1, Student2, Admin3}, ReadIds)
    \/ \E s \in OneAtATime : GetResourceByIdFind(s)
    \/ \E s \in OneAtATime : GetResourceByIdSave(s)

SpecRead == InitRead /\ [][NextRead]_vars

\* the stored record under this id (ids are distinct across the two stores
\* of this specification)
TargetRecord(id) ==
    LET all == resources \o mResources
    IN all[CHOOSE i \in 1..Len(all) : all[i]._id = id]

\* the creator, anyone for a public resource, an admin
MayRead(record, user) ==
    \/ record.creator = user.id
    \/ record.isPublic = Some(TRUE)
    \/ user.role = "admin"

\* the lookup of the request consults the store that holds the record: the
\* persistent one for its ids while connected, the volatile one for its ids
Reached(id) == Castable(id) => dbConnected

\* C17: a getResourceById request that finds the resource ends with 200 and
\* the resource's data exactly when the account is its creator, or it is
\* public, or the account is an admin; otherwise it ends with 403 and no
\* data, and no step of it changes the stored resource
C17_ReadIffVisible ==
    [][\A s \in Slots :
          (/\ reqs[s].op = "getResourceById"
           /\ reqs'[s] # reqs[s]
           /\ Stored(reqs[s].args.id)
           /\ Reached(reqs[s].args.id))
          => LET a == reqs[s].args
                 visible == MayRead(TargetRecord(a.id), a.user)
             IN /\ (reqs'[s] = Idle /\ visible)
                      => /\ last'.res.status = 200
                         /\ last'.res.data.resource._id = a.id
                /\ ~visible
                      => /\ reqs'[s] = Idle
                         /\ last'.res.status = 403
                         /\ last'.res.data = <<>>
                         /\ resources' = resources
                         /\ mResources' = mResources]_vars

\* the half that holds: data is returned only to the creator, for a public
\* resource, or to an admin, and a refused request changes nothing
C17_ReadOnlyIfVisible ==
    [][\A s \in Slots :
          (/\ reqs[s].op = "getResourceById"
           /\ reqs'[s] # reqs[s]
           /\ Stored(reqs[s].args.id)
           /\ Reached(reqs[s].args.id))
          => LET a == reqs[s].args
                 visible == MayRead(TargetRecord(a.id), a.user)
             IN ~visible
                   => /\ reqs'[s] = Idle
                      /\ last'.res.status = 403
                      /\ last'.res.data = <<>>
                      /\ resources' = resources
                      /\ mResources' = mResources]_vars

-----------------------------------------------------------------------------
(* Specification SpecMissing: direct calls of the MemoryStore methods that
   take an id, with stored and with unknown ids *)

\* MemoryStore.updateResource: null for an id that is not stored
updateResource(store, id, updateData, clock) ==
    LET index == FindIndex(store, id)
    IN IF index = 0 THEN [found |-> FALSE, store |-> store]
       ELSE [found |-> TRUE,
             store |-> [store EXCEPT ![index] =
                          [Spread(@, updateData) EXCEPT !.updatedAt = clock]]]

InitMissing ==
    /\ dbConnected = FALSE
    /\ now = 0
    /\ users = DemoUsers
    /\ boot = "done"
    /\ userIdCounter = Len(DemoUsers) + 1
    /\ mUsers = <<>>
    /\ resources = <<>>
    /\ resourceIdCounter = 1
    /\ mResources = <<>>
    /\ generationResults = <<>>
    /\ mGenerations = <<>>
    /\ oidCounter = 1
    /\ providers = {"mock"}
    /\ reqs = [s \in Slots |-> Idle]
    /\ probe = NoProbe
    /\ last = Idle

\* the ids the calls are addressed to: stored ones, ones never issued, and
\* an id of the other backend
CallUserIds == {<<"user", 1>>, <<"user", 3>>, ClientOid}
CallResourceIds == {<<"resource", n>> : n \in 1..(MaxResources + 1)} \cup {ClientOid}

\* the record of a call: the method, the id, whether the store held the id
\* when the call was made, the state of the store at that moment, whether
\* the call threw and what it returned ("null", "false", "record", "true")
Called(method, id, list, value) ==
    [kind |-> "call", method |-> method, id |-> id,
     missing |-> \A i \in 1..Len(list) : list[i]._id # id,
     before |-> <<users, userIdCounter, resources, resourceIdCounter>>,
     threw |-> FALSE, value |-> value]

StoreFindUserById ==
    /\ \E id \in CallUserIds :
          probe' = Called("findUserById", id, users,
                          IF findUserById(users, id) = 0 THEN "null" ELSE "record")
    /\ UNCHANGED <<dbConnected, now, accountVars, resourceVars, generationVars,
                   oidCounter, providers, reqs, last>>

StoreUpdateUser ==
    /\ \E id \in CallUserIds :
          LET result == updateUser(users, id, [profile |-> [displayName |-> "t", bio |-> <<"x">>]], now)
          IN /\ users' = result.store
             /\ probe' = Called("updateUser", id, users,
                                IF result.found THEN "record" ELSE "null")
    /\ UNCHANGED <<dbConnected, now, userIdCounter, boot, mUsers, resourceVars, generationVars,
                   oidCounter, providers, reqs, last>>

\* updateUserPassword is called: false for an id that is not stored,
\* otherwise the account is read and the call suspends at bcrypt.hash
StoreUpdateUserPassword(s) ==
    /\ SlotFree(s)
    /\ \E id \in CallUserIds :
          IF findUserById(users, id) = 0
          THEN /\ probe' = Called("updateUserPassword", id, users, "false")
               /\ UNCHANGED reqs
          ELSE /\ reqs' = [reqs EXCEPT ![s] =
                            [op |-> "updateUserPassword", pc |-> "hash",
                             args |-> [id |-> id, newPassword |-> "Changed1"],
                             loc |-> [user |-> users[findUserById(users, id)]],
                             res |-> Idle.res]]
               /\ UNCHANGED probe
    /\ UNCHANGED <<dbConnected, now, accountVars, resourceVars, generationVars,
                   oidCounter, providers, last>>

\* bcrypt.hash resolves: the account read before the await is written back
\* with the new password, and the call returns true
StoreUpdateUserPasswordHashed(s) ==
    /\ reqs[s].op = "updateUserPassword" /\ reqs[s].pc = "hash"
    /\ users' = updateUserPassword(users, reqs[s].loc.user, reqs[s].args.newPassword, now)
    /\ probe' = Called("updateUserPassword", reqs[s].args.id, <<reqs[s].loc.user>>, "true")
    /\ reqs' = [reqs EXCEPT ![s] = Idle]
    /\ UNCHANGED <<dbConnected, now, userIdCounter, boot, mUsers, resourceVars, generationVars,
                   oidCounter, providers, last>>

StoreFindResourceById ==
    /\ \E id \in CallResourceIds :
          probe' = Called("findResourceById", id, resources,
                          IF findResourceById(resources, id) = 0 THEN "null" ELSE "record")
    /\ UNCHANGED <<dbConnected, now, accountVars, resourceVars, generationVars,
                   oidCounter, providers, reqs, last>>

StoreUpdateResource ==
    /\ \E id \in CallResourceIds :
          LET result == updateResource(resources, id, [title |-> <<"b">>], now)
          IN /\ resources' = result.store
             /\ probe' = Called("updateResource", id, resources,
                                IF result.found THEN "record" ELSE "null")
    /\ UNCHANGED <<dbConnected, now, accountVars, resourceIdCounter, mResources,
                   generationVars, oidCounter, providers, reqs, last>>

StoreDeleteById ==
    /\ \E id \in CallResourceIds :
          LET result == deleteResource(resources, id)
          IN /\ resources' = result.store
             /\ probe' = Called("deleteResource", id, resources,
                                IF result.ok THEN "true" ELSE "false")
    /\ UNCHANGED <<dbConnected, now, accountVars, resourceIdCounter, mResources,
                   generationVars, oidCounter, providers, reqs, last>>

NextMissing ==
    \/ StoreCreateResource
    \/ StoreFindUserById
    \/ StoreUpdateUser
    \/ \E s \in OneAtATime : StoreUpdateUserPassword(s)
    \/ \E s \in OneAtATime : StoreUpdateUserPasswordHashed(s)
    \/ StoreFindResourceById
    \/ StoreUpdateResource
    \/ StoreDeleteById

SpecMissing == InitMissing /\ [][NextMissing]_vars

\* the value each method returns for an id that is not stored
NotFoundValue(method) ==
    IF method \in {"updateUserPassword", "deleteResource"} THEN "false" ELSE "null"

\* C18: a volatile-store call addressed to an id that is not stored returns
\* its not-found value, does not throw, and leaves the accounts, the
\* resources and both id counters as they were
C18_MissingIdNotFound ==
    (probe.kind = "call" /\ probe.missing)
       => /\ ~probe.threw
          /\ probe.value = NotFoundValue(probe.method)
          /\ <<users, userIdCounter, resources, resourceIdCounter>> = probe.before

\* updateUser was addressed to an id no account has, after a resource was
\* stored
C18_Witness ==
    /\ probe.kind = "call"
    /\ probe.method = "updateUser"
    /\ probe.missing
    /\ probe.value = "null"
    /\ resourceIdCounter > 1

-----------------------------------------------------------------------------
(* authMiddleware, getProfile, updateProfile, changePassword *)

\* the account authMiddleware attaches for the verified userId, <<>> for
\* none: memoryStore.findUserById in memory mode, UserModel.findById (after
\* the cast of the id, on a reachable database) otherwise
AuthLookup(id, memoryMode) ==
    IF memoryMode
    THEN IF findUserById(users, id) = 0 THEN <<>> ELSE users[findUserById(users, id)]
    ELSE IF ~Castable(id) \/ FindIndex(mUsers, id) = 0 THEN <<>>
         ELSE mUsers[FindIndex(mUsers, id)]

\* the locals of an authenticated activation: req.user and the document a
\* handler loaded; ghosts: the backend authMiddleware consulted, the one the
\* handler was routed to ("" before it starts), and the accounts of both
\* backends when the handler started; stamp is the clock the timestamps
\* hook read when the pending write was called
AuthLoc ==
    [authBackend |-> "", handlerBackend |-> "", user |-> <<>>, doc |-> <<>>,
     before |-> <<>>, stamp |-> 0]

AuthOps == {"getProfile", "updateProfile", "changePassword"}

\* a request with a bearer token arrives: authMiddleware verifies it, reads
\* the selector and looks the account up; 401 when memory mode knows no
\* such account
AuthStart(s, ops, tokens, bodies) ==
    /\ SlotFree(s)
    /\ \E op \in ops, token \in tokens, body \in bodies :
          LET r == [op |-> op, pc |-> "authFind", args |-> [token |-> token, body |-> body],
                    loc |-> [AuthLoc EXCEPT !.authBackend =
                                IF shouldUseMemoryStore THEN "memory" ELSE "mongo"],
                    res |-> Idle.res]
              user == AuthLookup(token[2], TRUE)
          IN IF ~shouldUseMemoryStore THEN Suspend(s, r)
             ELSE IF user = <<>>
             THEN Finish(s, Respond(r, 401, "user does not exist", <<>>))
             ELSE Suspend(s, [r EXCEPT !.pc = "handler", !.loc.user = user])
    /\ UNCHANGED <<dbConnected, now, accountVars, resourceVars, generationVars,
                   oidCounter, providers, probe>>

\* UserModel.findById(decoded.userId) settles: a rejection (cast error, no
\* connection) or no document ends in 401, otherwise next() is called
AuthFind(s) ==
    /\ reqs[s].op \in AuthOps /\ reqs[s].pc = "authFind"
    /\ LET id == reqs[s].args.token[2]
           user == AuthLookup(id, FALSE)
       IN IF QueryRejection(id, dbConnected) # ""
          THEN Finish(s, Respond(reqs[s], 401, "invalid token", <<>>))
          ELSE IF user = <<>>
          THEN Finish(s, Respond(reqs[s], 401, "user does not exist", <<>>))
          ELSE Suspend(s, [reqs[s] EXCEPT !.pc = "handler", !.loc.user = user])
    /\ UNCHANGED <<dbConnected, now, accountVars, resourceVars, generationVars,
                   oidCounter, providers, probe>>

\* the profile fields this model follows, as updateProfile builds them in
\* memory mode (displayName || req.user.profile.displayName): a missing or
\* empty field keeps req.user's value
ProfileFrom(body, user) ==
    [displayName |-> IF body.displayName = Undefined \/ body.displayName[1] = ""
                     THEN user.profile.displayName ELSE body.displayName[1],
     bio |-> IF body.bio = Undefined \/ body.bio[1] = <<>>
             THEN user.profile.bio ELSE body.bio[1]]

\* $set: {'profile.displayName': displayName, 'profile.bio': bio}: a key
\* whose value is undefined is dropped from the update, any other value
\* that passed the update validators is stored
SetProfile(body, profile) ==
    [displayName |-> IF body.displayName = Undefined THEN profile.displayName
                     ELSE body.displayName[1],
     bio |-> IF body.bio = Undefined THEN profile.bio ELSE body.bio[1]]

\* the handler starts and reads the selector. getProfile answers from
\* req.user; updateProfile calls memoryStore.updateUser (404 for null) or
\* awaits findByIdAndUpdate; changePassword calls memoryStore.findUserById
\* (404 for null) and awaits the comparison, or awaits findById
HandlerStart(s) ==
    /\ reqs[s].op \in AuthOps /\ reqs[s].pc = "handler"
    /\ LET user == reqs[s].loc.user
           r == [reqs[s] EXCEPT !.loc.handlerBackend =
                                   IF shouldUseMemoryStore THEN "memory" ELSE "mongo",
                                !.loc.before = <<users, mUsers>>]
       IN IF r.op = "getProfile"
          THEN /\ Finish(s, Respond(r, 200, "", [user |-> LoginUserData(user)]))
               /\ UNCHANGED users
          ELSE IF ~shouldUseMemoryStore
          THEN /\ Suspend(s, [r EXCEPT !.pc = IF r.op = "updateProfile"
                                              THEN "findByIdAndUpdate" ELSE "findById",
                                       !.loc.stamp = now])
               /\ UNCHANGED users
          ELSE IF r.op = "updateProfile"
          THEN LET result == updateUser(users, user._id,
                                        [profile |-> ProfileFrom(r.args.body, user)], now)
               IN /\ users' = result.store
                  /\ IF result.found
                     THEN Finish(s, Respond(r, 200, "updated",
                                            [user |-> ProfileUserData(result.user)]))
                     ELSE Finish(s, Respond(r, 404, "user does not exist", <<>>))
          ELSE /\ UNCHANGED users
               /\ IF findUserById(users, user._id) = 0
                  THEN Finish(s, Respond(r, 404, "user does not exist", <<>>))
                  ELSE Suspend(s, [r EXCEPT !.pc = "compare",
                                            !.loc.doc = users[findUserById(users, user._id)]])
    /\ UNCHANGED <<dbConnected, now, userIdCounter, boot, mUsers, resourceVars,
                   generationVars, oidCounter, providers, probe>>

\* findByIdAndUpdate(userId, {$set: profile fields}, {runValidators: true})
\* settles: the update validators refuse an empty profile.displayName
\* (required); updatedAt was added to the update when the call was made
UpdateProfileUpdate(s) ==
    /\ reqs[s].op = "updateProfile" /\ reqs[s].pc = "findByIdAndUpdate"
    /\ LET id == reqs[s].loc.user._id
           index == FindIndex(mUsers, id)
           body == reqs[s].args.body
       IN IF QueryRejection(id, dbConnected) # "" \/ body.displayName = Some("")
          THEN /\ Finish(s, Respond(reqs[s], 500, "update failed", <<>>))
               /\ UNCHANGED mUsers
          ELSE IF index = 0
          THEN /\ Finish(s, Respond(reqs[s], 404, "user does not exist", <<>>))
               /\ UNCHANGED mUsers
          ELSE /\ mUsers' = [mUsers EXCEPT ![index].profile = SetProfile(body, @),
                                           ![index].updatedAt = reqs[s].loc.stamp]
               /\ Finish(s, Respond(reqs[s], 200, "updated",
                                    [user |-> ProfileUserData(mUsers'[index])]))
    /\ UNCHANGED <<dbConnected, now, users, userIdCounter, boot, resourceVars,
                   generationVars, oidCounter, providers, probe>>

\* UserModel.findById(userId).select('+password') settles
ChangePasswordFind(s) ==
    /\ reqs[s].op = "changePassword" /\ reqs[s].pc = "findById"
    /\ LET id == reqs[s].loc.user._id
           index == FindIndex(mUsers, id)
       IN IF QueryRejection(id, dbConnected) # ""
          THEN Finish(s, Respond(reqs[s], 500, "password change failed", <<>>))
          ELSE IF index = 0
          THEN Finish(s, Respond(reqs[s], 404, "user does not exist", <<>>))
          ELSE Suspend(s, [reqs[s] EXCEPT !.pc = "compare", !.loc.doc = mUsers[index]])
    /\ UNCHANGED <<dbConnected, now, accountVars, resourceVars, generationVars,
                   oidCounter, providers, probe>>

\* the comparison with the current password settles: 400 for a mismatch;
\* otherwise updateUserPassword reads the account and awaits the hash
\* (memory mode), or user.save() is awaited
ChangePasswordCompare(s) ==
    /\ reqs[s].op = "changePassword" /\ reqs[s].pc = "compare"
    /\ LET r == reqs[s]
       IN IF ~BcryptCompare(r.args.body.currentPassword, r.loc.doc.password)
          THEN Finish(s, Respond(r, 400, "current password wrong", <<>>))
          ELSE IF InMemoryBranch(r)
          THEN IF findUserById(users, r.loc.user._id) = 0
               THEN Finish(s, Respond(r, 500, "password change failed", <<>>))
               ELSE Suspend(s, [r EXCEPT !.pc = "hash",
                                         !.loc.doc = users[findUserById(users, r.loc.user._id)]])
          ELSE Suspend(s, [r EXCEPT !.pc = "save", !.loc.stamp = now])
    /\ UNCHANGED <<dbConnected, now, accountVars, resourceVars, generationVars,
                   oidCounter, providers, probe>>

\* bcrypt.hash resolves: users.set(id, {...user, password, updatedAt}) with
\* the account as updateUserPassword read it
ChangePasswordHashed(s) ==
    /\ reqs[s].op = "changePassword" /\ reqs[s].pc = "hash"
    /\ LET r == reqs[s]
       IN /\ users' = updateUserPassword(users, r.loc.doc, r.args.body.newPassword, now)
          /\ Finish(s, Respond(r, 200, "password changed", <<>>))
    /\ UNCHANGED <<dbConnected, now, userIdCounter, boot, mUsers, resourceVars,
                   generationVars, oidCounter, providers, probe>>

\* user.save() with the new password settles (the pre-save hook hashes it,
\* the timestamps hook stamped updatedAt when save() was called)
ChangePasswordSave(s) ==
    /\ reqs[s].op = "changePassword" /\ reqs[s].pc = "save"
    /\ LET r == reqs[s]
           index == FindIndex(mUsers, r.loc.user._id)
       IN IF ~dbConnected \/ index = 0
          THEN /\ Finish(s, Respond(r, 500, "password change failed", <<>>))
               /\ UNCHANGED mUsers
          ELSE /\ mUsers' = [mUsers EXCEPT
                               ![index].password = BcryptHash(r.args.body.newPassword),
                               ![index].updatedAt = r.loc.stamp]
               /\ Finish(s, Respond(r, 200, "password changed", <<>>))
    /\ UNCHANGED <<dbConnected, now, users, userIdCounter, boot, resourceVars,
                   generationVars, oidCounter, providers, probe>>

-----------------------------------------------------------------------------
(* Specification SpecIsolation: the holders of a volatile and of a
   persistent account register, log in, read and update their profile and
   change their password while the connection comes and goes *)

IsolationTokens == { generateToken(<<"user", 1>>), generateToken(<<"oid", 1>>) }

\* the second displayName is the empty string
IsolationBodies ==
    { [displayName |-> Some(name), bio |-> Some(<<"x">>),
       currentPassword |-> password, newPassword |-> "Changed1"] :
         name \in {"t", ""}, password \in {"Teacher123", "Secret1"} }

IsolationLogins ==
    { LoginBody("teacher@example.com", "Teacher123"), LoginBody("m1@x.com", "Secret1") }

\* the holder of the volatile demo account registers with the same
\* credentials; the volatile backend refuses the request at its scan, the
\* persistent one stores a second account
IsolationRegisters ==
    { [username |-> "teacher", email |-> "teacher@example.com",
       password |-> "Teacher123", role |-> "teacher"] }

NextIsolation ==
    \/ Disconnect
    \/ Reconnect
    \/ \E s \in OneAtATime : RegisterStart(s, IsolationRegisters)
    \/ \E s \in OneAtATime : RegisterFindOne(s)
    \/ \E s \in OneAtATime : RegisterSave(s)
    \/ \E s \in OneAtATime : LoginStart(s, IsolationLogins)
    \/ \E s \in OneAtATime : LoginFindOne(s)
    \/ \E s \in OneAtATime : LoginCompare(s)
    \/ \E s \in OneAtATime : LoginSave(s)
    \/ \E s \in OneAtATime : AuthStart(s, AuthOps, IsolationTokens, IsolationBodies)
    \/ \E s \in OneAtATime : AuthFind(s)
    \/ \E s \in OneAtATime : HandlerStart(s)
    \/ \E s \in OneAtATime : UpdateProfileUpdate(s)
    \/ \E s \in OneAtATime : ChangePasswordFind(s)
    \/ \E s \in OneAtATime : ChangePasswordCompare(s)
    \/ \E s \in OneAtATime : ChangePasswordHashed(s)
    \/ \E s \in OneAtATime : ChangePasswordSave(s)

SpecIsolation == InitAccounts /\ [][NextIsolation]_vars

\* the backend the account of this token was created in
Home(token) == IF token[2][1] = "oid" THEN "mongo" ELSE "memory"

\* the accounts of the backend a login was not routed to
OtherAccounts(backend) == IF backend = "memory" THEN mUsers ELSE users

\* the login r carries the email and password of an account of the backend
\* it was not routed to
CredentialsOfOther(r) ==
    \E i \in 1..Len(OtherAccounts(r.loc.backend)) :
        /\ OtherAccounts(r.loc.backend)[i].email = r.args.email
        /\ OtherAccounts(r.loc.backend)[i].password[2] = r.args.password

\* C19: an account is invisible to the backend it was not created in: a
\* request bearing its token that authMiddleware resolves against the other
\* backend ends in 401 before any handler runs; a login with its
\* credentials routed to the other backend ends in 401; a profile or
\* password update routed to the other backend does not succeed and leaves
\* the accounts of both backends as they were
C19_BackendsIsolated ==
    /\ (last.op \in AuthOps /\ last.loc.authBackend # Home(last.args.token))
          => /\ last.res.status = 401
             /\ last.loc.handlerBackend = ""
    /\ (/\ last.op \in {"updateProfile", "changePassword"}
        /\ last.loc.handlerBackend \notin {"", Home(last.args.token)})
          => /\ last.res.status \in {404, 500}
             /\ <<users, mUsers>> = last.loc.before
    /\ (/\ last.op = "login"
        /\ CredentialsOfOther(last))
          => /\ last.res.status = 401
             /\ last.res.data = <<>>

\* what holds of the three parts: the token and the updates as stated; the
\* login is answered 401 when its backend holds no account with this email
\* and answers, 500 when the connection was lost before findOne, and
\* otherwise as the same-named account of its own backend, never as the
\* account of the other one
C19_OtherAccountNeverServed ==
    /\ (last.op \in AuthOps /\ last.loc.authBackend # Home(last.args.token))
          => /\ last.res.status = 401
             /\ last.loc.handlerBackend = ""
    /\ (/\ last.op \in {"updateProfile", "changePassword"}
        /\ last.loc.handlerBackend \notin {"", Home(last.args.token)})
          => /\ last.res.status \in {404, 500}
             /\ <<users, mUsers>> = last.loc.before
    /\ (/\ last.op = "login"
        /\ CredentialsOfOther(last))
          => \/ /\ ~last.loc.emailKnown /\ ~last.loc.connErr
                /\ last.res.status = 401 /\ last.res.data = <<>>
             \/ /\ last.loc.connErr
                /\ last.res.status = 500 /\ last.res.data = <<>>
             \/ /\ last.loc.emailKnown /\ ~last.loc.connErr
                /\ last.res.status \in {200, 401}
                /\ last.res.status = 200
                      => Home(generateToken(last.res.data.user.id)) = last.loc.backend

\* the holder of the persistent account passed authMiddleware while
\* connected, and the profile update was then routed to the volatile store
C19_Witness ==
    /\ last.op = "updateProfile"
    /\ Home(last.args.token) = "mongo"
    /\ last.loc.authBackend = "mongo"
    /\ last.loc.handlerBackend = "memory"
    /\ last.res.status = 404

\* the holder of the volatile account, with the database connected, was
\* refused by authMiddleware and by login
C19_WitnessVolatile ==
    /\ last.op = "login"
    /\ last.loc.backend = "mongo"
    /\ last.args.email = "teacher@example.com"
    /\ last.res.status = 401

-----------------------------------------------------------------------------
(* Specification SpecIds: resources are created and deleted and generation
   records produced while the clock advances and the connection comes and
   goes *)

IdsBodies == { ResourceBody(Some(TRUE), Undefined, TRUE) }

NextIds ==
    \/ Disconnect
    \/ Reconnect
    \/ Tick
    \/ \E s \in OneAtATime : CreateResourceStart(s, {Teacher1}, IdsBodies)
    \/ \E s \in OneAtATime : CreateResourceSave(s)
    \/ \E s \in OneAtATime : DeleteResourceStart(s, {Teacher1}, Ids(resources))
    \/ \E s \in OneAtATime : DeleteResourceFind(s)
    \/ \E s \in Slots : GenerateContentStart(s, {Teacher1}, ByIdRequests)
    \/ \E s \in Slots : GenerateContentCall(s)
    \/ \E s \in Slots : GenerateContentSave(s)

SpecIds == InitById /\ [][NextIds]_vars

\* the records of the list carry pairwise distinct _id values
DistinctIds(list) ==
    \A i, j \in 1..Len(list) : i # j => list[i]._id # list[j]._id

\* C20: in the volatile backend the accounts, the resources and the
\* generation records each carry pairwise distinct identifiers, also when
\* two generation records are created at the same clock reading
C20_VolatileIdsUnique ==
    /\ DistinctIds(users)
    /\ DistinctIds(resources)
    /\ DistinctIds(generationResults)

\* the part that holds: the identifiers the counters issue
C20_CounterIdsUnique ==
    /\ DistinctIds(users)
    /\ DistinctIds(resources)
    /\ \A i \in 1..Len(users) : users[i]._id[2] < userIdCounter
    /\ \A i \in 1..Len(resources) : resources[i]._id[2] < resourceIdCounter

-----------------------------------------------------------------------------
(* Failed adapter calls, under SpecGenerate *)

Range(list) == { list[i] : i \in 1..Len(list) }

\* the record the activation in slot s is about to store, in either backend
Produced(s) ==
    IF reqs[s].op = "generateContent" /\ reqs[s].pc = "save" /\ reqs[s].loc.outcome = "ok"
    THEN { reqs[s].loc.doc, [reqs[s].loc.doc EXCEPT !._id = <<"oid", oidCounter>>] }
    ELSE {}

\* C21: a generation request whose adapter call failed ends with status 500
\* and no result, no adapter having answered in its place, and the step
\* that ends it leaves the generation records of both backends as they
\* were; every record that appears in a backend was built by an activation
\* whose adapter call succeeded, and the records already stored are the
\* same records afterwards, or fewer
C21_FailureLeavesNoRecord ==
    [][ /\ (last' # last /\ last'.op = "generateContent" /\ last'.loc.outcome = "failed")
            => /\ last'.res.status = 500
               /\ last'.res.data = <<>>
               /\ last'.loc.result = <<>>
               /\ generationResults' = generationResults
               /\ mGenerations' = mGenerations
        /\ \A record \in Range(generationResults') \cup Range(mGenerations') :
              \/ record \in Range(generationResults) \cup Range(mGenerations)
              \/ \E s \in Slots : record \in Produced(s)
        /\ Len(generationResults') + Len(mGenerations')
              <= Len(generationResults) + Len(mGenerations) + 1 ]_vars

\* an adapter call failed and the request was answered, while a record of an
\* earlier successful call is stored
C21_Witness ==
    /\ last.op = "generateContent" /\ last.loc.outcome = "failed"
    /\ last.res.status = 500
    /\ Len(generationResults) > 0

-----------------------------------------------------------------------------
(* Specification SpecSort: direct findResources calls with a sort option
   on a growing collection *)

SortOptions ==
    { [sortKey |-> key, sortOrder |-> order] :
        key \in {"createdAt", "title"}, order \in {1, 0 - 1} }

\* memoryStore.findResources({}, {sort})
StoreFindSorted ==
    /\ \E sort \in SortOptions :
          probe' = [kind |-> "sorted", sort |-> sort,
                    result |-> findResources(resources, NoQuery, Options(sort, 0, 0))]
    /\ UNCHANGED <<dbConnected, now, users, userIdCounter, boot, mUsers, resources,
                   resourceIdCounter, mResources, generationResults, mGenerations,
                   oidCounter, providers, reqs, last>>

NextSort ==
    \/ Tick
    \/ StoreCreateResource
    \/ StoreFindSorted

SpecSort == InitStore /\ [][NextSort]_vars

\* a precedes b in the requested direction, by the raw sort-field values
Precedes(a, b, sort) ==
    IF sort.sortOrder = 1
    THEN JSLess(SortVal(a, sort.sortKey), SortVal(b, sort.sortKey))
    ELSE JSLess(SortVal(b, sort.sortKey), SortVal(a, sort.sortKey))

\* the returned list holds every stored resource once and no element
\* precedes an earlier one
SortedBy(list, sort) ==
    /\ Len(list) = Len(resources)
    /\ \A i \in 1..Len(resources) : \E j \in 1..Len(list) : list[j] = resources[i]
    /\ \A i, j \in 1..Len(list) : i < j => ~Precedes(list[j], list[i], sort)

\* C22: findResources with a sort option returns the resources ordered by
\* the sort field in the requested direction, and resources with equal
\* sort-field values in their insertion order
C22_SortStable ==
    probe.kind = "sorted" =>
        LET list == probe.result.list
        IN /\ ~probe.result.threw
           /\ SortedBy(list, probe.sort)
           /\ \A i, j \in 1..Len(list) :
                 (i < j /\ SortVal(list[i], probe.sort.sortKey) = SortVal(list[j], probe.sort.sortKey))
                    => FindIndex(resources, list[i]._id) < FindIndex(resources, list[j]._id)

\* the ordering alone: whatever the ties, the returned list is a
\* permutation of the collection in the requested direction
C22_SortOrdered ==
    probe.kind = "sorted" =>
        /\ ~probe.result.threw
        /\ SortedBy(probe.result.list, probe.sort)

-----------------------------------------------------------------------------
(* Specification SpecSearch: direct findResources calls with a search term
   on a growing collection *)

SearchTerms == { <<"A">>, <<"b">>, <<"a", "b">> }

\* the resourceData values createResource accepts: with and without
\* description and tags
SearchInputs ==
    StoreInputs \cup
    { ResourceData(<<"b">>, Some(<<"A">>), Undefined, "u1", Undefined, Undefined, TRUE),
      ResourceData(<<"uFF1F", "?">>, Some(<<"b">>), Undefined, "u1", Undefined, Undefined, TRUE),
      ResourceData(<<"b", "?">>, Undefined, Undefined, "u1", Undefined, Undefined, TRUE) }

\* memoryStore.createResource(resourceData)
StoreCreateSearchable ==
    /\ resourceIdCounter <= MaxResources
    /\ \E data \in SearchInputs :
          resources' = Append(resources, NewMemoryResource(data, resourceIdCounter, now))
    /\ resourceIdCounter' = resourceIdCounter + 1
    /\ probe' = NoProbe
    /\ UNCHANGED <<dbConnected, now, users, userIdCounter, boot, mUsers, mResources,
                   generationResults, mGenerations, oidCounter, providers, reqs, last>>

\* memoryStore.findResources({$text: {$search: term}})
StoreFindSearch ==
    /\ \E term \in SearchTerms :
          probe' = [kind |-> "search", term |-> term,
                    result |-> findResources(resources, [NoQuery EXCEPT !.search = term],
                                             Options([sortKey |-> "", sortOrder |-> 1], 0, 0))]
    /\ UNCHANGED <<dbConnected, now, users, userIdCounter, boot, mUsers, resources,
                   resourceIdCounter, mResources, generationResults, mGenerations,
                   oidCounter, providers, reqs, last>>

\* memoryStore.cleanupCorruptedResources()
StoreCleanupCorruptedResources ==
    /\ resources' = cleanupCorruptedResources(resources)
    /\ probe' = NoProbe
    /\ UNCHANGED <<dbConnected, now, users, userIdCounter, boot, mUsers,
                   resourceIdCounter, mResources, generationResults, mGenerations,
                   oidCounter, providers, reqs, last>>

NextSearch ==
    \/ StoreCreateSearchable
    \/ StoreFindSearch
    \/ StoreCleanupCorruptedResources

SpecSearch == InitStore /\ [][NextSearch]_vars

\* the lower-cased term is a substring of the lower-cased title, of the
\* description when there is one, or of a tag when there are tags
TermOccurs(r, term) ==
    LET t == ToLowerCase(term)
    IN \/ Includes(ToLowerCase(r.title), t)
       \/ r.description # Undefined /\ Includes(ToLowerCase(r.description[1]), t)
       \/ r.tags # Undefined
            /\ \E i \in 1..Len(r.tags[1]) : Includes(ToLowerCase(r.tags[1][i]), t)

\* the returned list is the stored resources in which the term occurs
ReturnsOccurrences(list, term) ==
    \A i \in 1..Len(resources) :
        (\E j \in 1..Len(list) : list[j] = resources[i]) <=> TermOccurs(resources[i], term)

\* C23: whatever resources createResource has stored, a search returns
\* without error and returns a resource exactly when the term occurs in its
\* title, description or tags
C23_SearchTotal ==
    probe.kind = "search" =>
        /\ ~probe.result.threw
        /\ ReturnsOccurrences(probe.result.list, probe.term)

\* a search that returns, returns the resources in which the term occurs
C23_SearchWhenReturns ==
    (probe.kind = "search" /\ ~probe.result.threw)
        => ReturnsOccurrences(probe.result.list, probe.term)

-----------------------------------------------------------------------------
(* Specification SpecPaging: resources and generation records are created,
   and both lists are requested page by page, while the connection comes
   and goes *)

PagingPages == {1, 2, 3}
PagingLimits == {1, 2}

PagingBodies ==
    { ResourceBody(isPublic, Undefined, TRUE) : isPublic \in {Some(TRUE), Some(FALSE)} }

NextPaging ==
    \/ Disconnect
    \/ Reconnect
    \/ \E s \in OneAtATime : CreateResourceStart(s, {Teacher1}, PagingBodies)
    \/ \E s \in OneAtATime : CreateResourceSave(s)
    \/ \E s \in OneAtATime : GenerateContentStart(s, {Teacher1, Student2}, ByIdRequests)
    \/ \E s \in OneAtATime : GenerateContentCall(s)
    \/ \E s \in OneAtATime : GenerateContentSave(s)
    \/ \E s \in OneAtATime :
          GetResourcesStart(s, {Student2}, PagingPages, {1}, {DefaultSort})
    \/ \E s \in OneAtATime : GetResourcesFind(s)
    \/ \E s \in OneAtATime : GetResourcesCount(s)
    \/ \E s \in OneAtATime :
          GetGenerationHistoryStart(s, {Teacher1}, {1, 2}, PagingLimits)
    \/ \E s \in OneAtATime : GetGenerationHistoryQuery(s)
    \/ \E s \in OneAtATime : GetGenerationHistoryCount(s)

SpecPaging == InitById /\ [][NextPaging]_vars

\* the number of volatile records the list request of r matches
Matching(r) ==
    IF r.op = "getResources"
    THEN Cardinality({ i \in 1..Len(resources) : Visible(resources[i], r.args.user) })
    ELSE Cardinality({ i \in 1..Len(generationResults) :
                          generationResults[i].userId = r.args.user.id })

Min(a, b) == IF a < b THEN a ELSE b
Max(a, b) == IF a > b THEN a ELSE b

\* C24: a list response served from the volatile backend reports as total
\* the number of stored records matching the filter, returns
\* min(pageSize, max(0, total - (page-1)*pageSize)) records and reports
\* ceil(total / pageSize) pages, for getResources and getGenerationHistory
C24_PaginationCounts ==
    (last.op \in {"getResources", "getGenerationHistory"}
        /\ last.res.status = 200 /\ last.loc.memoryUsed)
      => LET d == last.res.data
             page == last.args.page
             pageSize == last.args.limit
             returned == Len(d.resources) + Len(d.results)
         IN /\ d.total = Matching(last)
            /\ d.current = page /\ d.pageSize = pageSize
            /\ returned = Min(pageSize, Max(0, d.total - (page - 1) * pageSize))
            /\ d.totalPages * pageSize >= d.total
            /\ (d.totalPages - 1) * pageSize < d.total
            /\ d.totalPages >= 0

\* a short last page of each list: the second page of size 1 over two
\* matching volatile records
C24_Witness ==
    /\ last.op = "getGenerationHistory" /\ last.res.status = 200 /\ last.loc.memoryUsed
    /\ last.args.page = 2 /\ last.args.limit = 1
    /\ last.res.data.total = 2 /\ Len(last.res.data.results) = 1

\* a page past the end of the resource list is empty and still reports the
\* total
C24_WitnessPastEnd ==
    /\ last.op = "getResources" /\ last.res.status = 200 /\ last.loc.memoryUsed
    /\ last.args.page = 3 /\ last.args.limit = 1
    /\ last.res.data.total = 2 /\ last.res.data.resources = <<>>

-----------------------------------------------------------------------------
(* Specification SpecRace: the teacher of the volatile backend logs in,
   updates the profile and changes the password in concurrent requests
   while the database stays disconnected *)

InitRace == InitHandlers /\ ~dbConnected /\ providers = {"mock"}

RaceOps == {"updateProfile", "changePassword"}
RaceTokens == { generateToken(<<"user", 1>>) }
RaceBodies ==
    { [displayName |-> Some("t"), bio |-> Some(<<"x">>),
       currentPassword |-> "Teacher123", newPassword |-> "Changed1"] }
RaceLogins == { LoginBody("teacher@example.com", "Teacher123") }

NextRace ==
    \/ \E s \in Slots : LoginStart(s, RaceLogins)
    \/ \E s \in Slots : LoginCompare(s)
    \/ \E s \in Slots : AuthStart(s, RaceOps, RaceTokens, RaceBodies)
    \/ \E s \in Slots : HandlerStart(s)
    \/ \E s \in Slots : ChangePasswordCompare(s)
    \/ \E s \in Slots : ChangePasswordHashed(s)

SpecRace == InitRace /\ [][NextRace]_vars

\* the activation in slot s completes updateUserPassword in this step
PasswordWritten(s) ==
    /\ reqs[s].op = "changePassword" /\ reqs[s].pc = "hash"
    /\ reqs'[s].op = "idle"

\* the account without the two fields updateUserPassword is to change
OtherFields(account) == [account EXCEPT !.password = "", !.updatedAt = 0]

\* C25: the step in which updateUserPassword stores the new password
\* changes the password and updatedAt of the addressed account and nothing
\* else: what updateUser calls wrote while the hash was awaited is still in
\* the stored account
C25_PasswordChangeKeepsWrites ==
    [][ \A s \in Slots :
          PasswordWritten(s)
            => /\ Len(users') = Len(users)
               /\ \A i \in 1..Len(users) : OtherFields(users'[i]) = OtherFields(users[i]) ]_vars

\* the same for a password change during which no updateUser call wrote to
\* the account
C25_UninterruptedKeepsWrites ==
    [][ \A s \in Slots :
          (PasswordWritten(s)
             /\ reqs[s].loc.doc = users[FindIndex(users, reqs[s].loc.user._id)])
            => /\ Len(users') = Len(users)
               /\ \A i \in 1..Len(users) : OtherFields(users'[i]) = OtherFields(users[i]) ]_vars

-----------------------------------------------------------------------------
(* Specification SpecHistory: generation requests and history requests of
   two accounts, under a connection state that does not change *)

NextHistory ==
    \/ Tick
    \/ \E s \in OneAtATime : GenerateContentStart(s, {Teacher1, Student2}, ByIdRequests)
    \/ \E s \in OneAtATime : GenerateContentCall(s)
    \/ \E s \in OneAtATime : GenerateContentSave(s)
    \/ \E s \in OneAtATime :
          GetGenerationHistoryStart(s, {Teacher1, Student2}, {1}, {DefaultLimit})
    \/ \E s \in OneAtATime : GetGenerationHistoryQuery(s)
    \/ \E s \in OneAtATime : GetGenerationHistoryCount(s)

SpecHistory == InitById /\ [][NextHistory]_vars

\* the activation in slot s answers a history request in this step
HistoryAnswered(s) ==
    /\ reqs[s].op = "getGenerationHistory" /\ reqs[s].pc = "query"
    /\ reqs'[s].op = "idle"

\* the records generateContent has stored for the account, in either backend
RecordsOf(userId) ==
    { record \in Range(generationResults) \cup Range(mGenerations) : record.userId = userId }

\* C26: with the connection state unchanged, an unfiltered history request
\* of an account is answered with every record a successful generateContent
\* of that account has stored
C26_HistoryShowsNewRecord ==
    [][ \A s \in Slots :
          HistoryAnswered(s)
            => /\ last'.res.status = 200
               /\ RecordsOf(reqs[s].args.user.id) \subseteq Range(last'.res.data.results) ]_vars

\* the same while the database is disconnected: the write and the read both
\* go to the volatile backend
C26_VolatileHistoryShowsNewRecord ==
    [][ \A s \in Slots :
          (HistoryAnswered(s) /\ ~dbConnected)
            => /\ last'.res.status = 200
               /\ RecordsOf(reqs[s].args.user.id) \subseteq Range(last'.res.data.results) ]_vars

-----------------------------------------------------------------------------
(* Specification SpecCreator: the teacher creates resources and updates and
   publishes them, the student reads and likes them, with request bodies
   that name another account as creator *)

\* req.body of createResource and of updateResource with creator: 'u2'
CreatorBodies == { ResourceBody(Some(TRUE), Undefined, TRUE) @@ [creator |-> "u2"] }
CreatorUpdates == { UpdateBody(Undefined, Undefined, Some("u2")) }

StoredIds == Ids(resources) \cup Ids(mResources)

NextCreator ==
    \/ Disconnect
    \/ Reconnect
    \/ \E s \in OneAtATime : CreateResourceStart(s, {Teacher1}, CreatorBodies)
    \/ \E s \in OneAtATime : CreateResourceSave(s)
    \/ \E s \in OneAtATime : UpdateResourceStart(s, {Teacher1}, StoredIds, CreatorUpdates)
    \/ \E s \in OneAtATime : UpdateResourceFind(s)
    \/ \E s \in OneAtATime : UpdateResourceUpdate(s)
    \/ \E s \in OneAtATime : LikeResourceStart(s, {Student2}, StoredIds)
    \/ \E s \in OneAtATime : LikeResourceFind(s)
    \/ \E s \in OneAtATime : LikeResourceSave(s)
    \/ \E s \in OneAtATime : PublishResourceStart(s, {Teacher1}, StoredIds)
    \/ \E s \in OneAtATime : PublishResourceFind(s)
    \/ \E s \in OneAtATime : PublishResourceSave(s)
    \/ \E s \in OneAtATime : GetResourceByIdStart(s, {Student2}, StoredIds)
    \/ \E s \in OneAtATime : GetResourceByIdFind(s)
    \/ \E s \in OneAtATime : GetResourceByIdSave(s)

SpecCreator == InitById /\ [][NextCreator]_vars

\* C27: every stored resource names as creator the account that created
\* it (the teacher creates all resources here), whatever creator the bodies
\* of createResource and updateResource carry and whatever like, publish
\* and read requests were served
C27_CreatorIsCreatingAccount ==
    \A record \in Range(resources) \cup Range(mResources) : record.creator = Teacher1.id

\* the creator of the records of a collection is kept, and a new record
\* names the teacher
CreatorsKept(before, after) ==
    \A i \in 1..Len(after) :
        after[i].creator = IF i <= Len(before) THEN before[i].creator ELSE Teacher1.id

\* the same for every step but the one in which updateResource writes the
\* request body: createResource stores the authenticated account and like,
\* publish and read leave the creator as it is
C27_OnlyUpdateRewritesCreator ==
    [][ (\A s \in Slots : ~(reqs[s].op = "updateResource" /\ reqs[s].pc = "update"
                               /\ reqs'[s].op = "idle"))
          => /\ CreatorsKept(resources, resources')
             /\ CreatorsKept(mResources, mResources') ]_vars

-----------------------------------------------------------------------------
(* Specification SpecTokens: accounts register and log in against the
   volatile backend, a client keeps the token of a response and presents it
   later, to read its profile or change its password, and the store is
   cleared or the process restarted in between *)

InitTokens == InitRegister /\ ~dbConnected

TokenLogins == { LoginBody("teacher@example.com", "Teacher123") }

\* MemoryStore.clear()
StoreClear ==
    /\ users' = <<>>
    /\ userIdCounter' = 1
    /\ UNCHANGED <<dbConnected, now, boot, mUsers, resourceVars, generationVars,
                   oidCounter, providers, reqs, probe, last>>

\* the process restarts: the module is loaded again, a new MemoryStore is
\* constructed and initializeDemoUsers runs to its first await: the cleanup
\* of the (empty) resource list, then createUser of the teacher up to its
\* bcrypt.hash; requests in flight are gone
Restart ==
    /\ users' = <<>>
    /\ userIdCounter' = 1
    /\ resources' = cleanupCorruptedResources(<<>>)
    /\ resourceIdCounter' = 1
    /\ generationResults' = <<>>
    /\ boot' = "teacher"
    /\ reqs' = [s \in Slots |-> Idle]
    /\ UNCHANGED <<dbConnected, now, mUsers, mResources, mGenerations, oidCounter,
                   providers, probe, last>>

\* the hash initializeDemoUsers awaits resolves: createUser stores the demo
\* account under the next id; after the teacher, createUser of the student
\* scans the accounts (a match throws and ends the initialization) and awaits
\* its own hash
InitializeDemoUsersHashed ==
    /\ boot \in {"teacher", "student"}
    /\ users' = SetUser(users, NewMemoryUser(DemoUserData[boot], userIdCounter, now))
    /\ userIdCounter' = userIdCounter + 1
    /\ boot' = IF boot = "teacher"
                  /\ ~ExistingUser(users', DemoUserData.student.email,
                                   DemoUserData.student.username)
               THEN "student" ELSE "done"
    /\ UNCHANGED <<dbConnected, now, mUsers, resourceVars, generationVars,
                   oidCounter, providers, reqs, probe, last>>

\* the client keeps the token of the register or login response it just
\* received, together with the account it was issued to (a ghost)
KeepToken ==
    /\ \/ /\ last.op = "register" /\ last.res.status = 201
          /\ probe' = [kind |-> "held", token |-> last.res.data.token,
                       email |-> last.args.email]
       \/ /\ last.op = "login" /\ last.res.status = 200
          /\ probe' = [kind |-> "held", token |-> last.res.data.token,
                       email |-> last.res.data.user.email]
    /\ UNCHANGED <<dbConnected, now, accountVars, resourceVars, generationVars,
                   oidCounter, providers, reqs, last>>

HeldTokens == IF probe.kind = "held" THEN {probe.token} ELSE {}

NextTokens ==
    \/ \E s \in OneAtATime : RegisterStart(s, RegisterBodies)
    \/ \E s \in OneAtATime : RegisterHashed(s)
    \/ \E s \in OneAtATime : LoginStart(s, TokenLogins)
    \/ \E s \in OneAtATime : LoginCompare(s)
    \/ KeepToken
    \/ \E s \in OneAtATime : AuthStart(s, {"getProfile", "changePassword"}, HeldTokens, RaceBodies)
    \/ \E s \in OneAtATime : HandlerStart(s)
    \/ \E s \in OneAtATime : ChangePasswordCompare(s)
    \/ \E s \in OneAtATime : ChangePasswordHashed(s)
    \/ StoreClear
    \/ Restart
    \/ InitializeDemoUsersHashed
    \/ Tick

SpecTokens == InitTokens /\ [][NextTokens]_vars

\* authMiddleware accepts the token of the request in slot s in this step
TokenAccepted(s) ==
    /\ reqs[s].op = "idle"
    /\ reqs'[s].op \in AuthOps /\ reqs'[s].pc = "handler"

\* C28: whenever authMiddleware accepts a token, the account it attaches to
\* the request is the account the token was issued to, whatever register,
\* login, clear and restart operations came between
C28_TokenBindsAccount ==
    [][ \A s \in Slots :
          TokenAccepted(s) => reqs'[s].loc.user.email = probe.email ]_vars

\* the attached account is the one stored under the user id of the token
C28_TokenBindsId ==
    [][ \A s \in Slots :
          TokenAccepted(s) => reqs'[s].loc.user._id = reqs'[s].args.token[2] ]_vars

-----------------------------------------------------------------------------
(* Specification SpecRouting: register, login, updateProfile and
   changePassword requests against both backends while the connection
   comes and goes between their awaits *)

RoutingOps == {"updateProfile", "changePassword"}
\* the holder of the persistent account sends its own current password
RoutingBodies ==
    { [displayName |-> Some("t"), bio |-> Some(<<"x">>),
       currentPassword |-> "Secret1", newPassword |-> "Changed1"] }

NextRouting ==
    \/ Disconnect
    \/ Reconnect
    \/ \E s \in OneAtATime : RegisterStart(s, RegisterBodies)
    \/ \E s \in OneAtATime : RegisterHashed(s)
    \/ \E s \in OneAtATime : RegisterFindOne(s)
    \/ \E s \in OneAtATime : RegisterSave(s)
    \/ \E s \in OneAtATime : LoginStart(s, IsolationLogins)
    \/ \E s \in OneAtATime : LoginFindOne(s)
    \/ \E s \in OneAtATime : LoginCompare(s)
    \/ \E s \in OneAtATime : LoginSave(s)
    \/ \E s \in OneAtATime : AuthStart(s, RoutingOps, RaceTokens, RaceBodies)
    \/ \E s \in OneAtATime :
          AuthStart(s, RoutingOps, {generateToken(<<"oid", 1>>)}, RoutingBodies)
    \/ \E s \in OneAtATime : AuthFind(s)
    \/ \E s \in OneAtATime : HandlerStart(s)
    \/ \E s \in OneAtATime : UpdateProfileUpdate(s)
    \/ \E s \in OneAtATime : ChangePasswordFind(s)
    \/ \E s \in OneAtATime : ChangePasswordCompare(s)
    \/ \E s \in OneAtATime : ChangePasswordHashed(s)
    \/ \E s \in OneAtATime : ChangePasswordSave(s)

SpecRouting == InitAccounts /\ [][NextRouting]_vars

\* the backend the handler of activation r chose when it read the selector
\* ("" when the handler has not started)
RoutedTo(r) ==
    IF r.op \in {"register", "login"} THEN r.loc.backend
    ELSE IF r.op \in RoutingOps THEN r.loc.handlerBackend
    ELSE ""

\* the awaits of the persistent branch and of the volatile branch
PersistentSteps == {"findOne", "save", "findByIdAndUpdate", "findById"}
VolatileSteps == {"hash"}

\* C29: an auth handler stays with the backend it chose at its start: each
\* of its later steps leaves the accounts of the other backend unchanged
\* and suspends only at awaits of its own branch, whatever the connection
\* state has become meanwhile
C29_HandlerKeepsBackend ==
    [][ \A s \in Slots :
          (reqs'[s] # reqs[s] /\ RoutedTo(reqs[s]) # "")
            => /\ RoutedTo(reqs[s]) = "memory"
                    => mUsers' = mUsers /\ reqs'[s].pc \notin PersistentSteps
               /\ RoutedTo(reqs[s]) = "mongo"
                    => users' = users /\ reqs'[s].pc \notin VolatileSteps
               /\ reqs'[s].op # "idle" => RoutedTo(reqs'[s]) = RoutedTo(reqs[s]) ]_vars

\* a password change routed to the volatile backend is suspended at the
\* hash while the database has become connected
C29_Witness ==
    \E s \in Slots :
        /\ reqs[s].op = "changePassword" /\ reqs[s].pc = "hash"
        /\ reqs[s].loc.handlerBackend = "memory"
        /\ dbConnected

\* a login routed to the persistent backend is suspended at save() while
\* the database has become disconnected
C29_WitnessPersistent ==
    \E s \in Slots :
        /\ reqs[s].op = "login" /\ reqs[s].pc = "save"
        /\ reqs[s].loc.backend = "mongo"
        /\ ~dbConnected

-----------------------------------------------------------------------------
(* Specification SpecDelete: concurrent delete requests of the owner and of
   another account for stored resources of both backends, while the
   connection comes and goes *)

DeletePrincipals == {Teacher1, Student2}

NextDelete ==
    \/ Disconnect
    \/ Reconnect
    \/ \E s \in Slots : DeleteResourceStart(s, DeletePrincipals, ReadIds)
    \/ \E s \in Slots : DeleteResourceFind(s)
    \/ \E s \in Slots : DeleteResourceDelete(s)

SpecDelete == InitRead /\ [][NextDelete]_vars

\* the activation in slot s ends in this step
DeleteAnswered(s) == reqs[s].op = "deleteResource" /\ reqs'[s].op = "idle"

\* after is before without one record, which carried this id and which
\* this account may delete
RemovedOne(before, after, id, user) ==
    \E i \in 1..Len(before) :
        /\ before[i]._id = id
        /\ before[i].creator = user.id \/ user.role = "admin"
        /\ after = Splice(before, i)

\* C30: a delete request that is answered with success has removed exactly
\* one record with the requested id, from the backend in which its lookup
\* found the resource, after the authorization check passed on it, and has
\* left every other record of both backends unchanged; a delete request
\* answered otherwise has removed nothing
C30_DeleteRemovesExactlyOne ==
    [][ \A s \in Slots :
          DeleteAnswered(s)
            => IF last'.res.status = 200
               THEN IF last'.loc.memoryUsed
                    THEN /\ RemovedOne(resources, resources', reqs[s].args.id, reqs[s].args.user)
                         /\ mResources' = mResources
                    ELSE /\ RemovedOne(mResources, mResources', reqs[s].args.id, reqs[s].args.user)
                         /\ resources' = resources
               ELSE resources' = resources /\ mResources' = mResources ]_vars

\* the same with 'at most one': whatever a delete request is answered, it
\* removes nothing or one record of the requested id from the backend of
\* its lookup, authorized, and nothing from the other backend; a step that
\* does not end a delete request removes nothing
C30_DeleteRemovesAtMostOne ==
    [][ /\ \A s \in Slots :
              DeleteAnswered(s)
                => IF last'.loc.memoryUsed
                   THEN /\ \/ resources' = resources
                            \/ /\ last'.res.status = 200
                               /\ RemovedOne(resources, resources', reqs[s].args.id,
                                             reqs[s].args.user)
                        /\ mResources' = mResources
                   ELSE /\ \/ mResources' = mResources
                            \/ /\ last'.res.status = 200
                               /\ RemovedOne(mResources, mResources', reqs[s].args.id,
                                             reqs[s].args.user)
                        /\ resources' = resources
        /\ (\A s \in Slots : ~DeleteAnswered(s))
              => resources' = resources /\ mResources' = mResources ]_vars

====
